---- MODULE Spec2Model ----
(***************************************************************************)
(* Retrying-transaction protocol of the arpen services:                    *)
(*   PostgresClient.transaction  (services/postgres, root + savepoints)    *)
(*   RedisClient.transaction     (services/redis, WATCH/MULTI/EXEC)        *)
(* One client is exercised per behaviour ("active").  The unit of work is  *)
(* caller code: it is modelled as a nondeterministic program that issues   *)
(* statements, opens nested transactions, raises rollback signals, returns *)
(* or throws.  The backend answers every statement with ok or an error.    *)
(***************************************************************************)
EXTENDS Integers, Sequences, FiniteSets, TLC

\* ------------------------------------------------------------------ bounds
\* PostgresClient.maxTransactionRetries / RedisClient.maxTransactionRetries
\* (tunable field, default 59): the model runs with a small budget.
maxTransactionRetries == 1
\* deepest nesting of transaction() calls the unit of work opens
MaxDepth == 3
\* statements and nested calls the units of work issue during one root call
MaxOps == 3
\* connect() calls made on one service
MaxConnects == 3
\* operations applied to one RedisQueue
MaxQueueOps == 4
\* query() calls made on the clients connect() returned
MaxQueries == 2

\* --------------------------------------------------------------- constants
\* PostgresClient.minTransactionDelay, maxTransactionDelay (milliseconds)
minTransactionDelay == 100
maxTransactionDelay == 1000
\* values of Math.random(), in thousandths
Randoms == {0, 500, 999}
NullSp == 0                     \* rollback(null): the root marker
RollbackValues == {42, 43}      \* payloads handed to rollback(value)
SerializationFailure == "40001"
OtherFailure == "XX000"
InFailedTransaction == "25P02"
NoActiveTransaction == "25P01"

VARIABLES
    active,             \* which client the caller exercises: "postgres" | "redis"
    transactionLevel,   \* _transactionLevel of the active client
    frames,             \* in-flight PostgresClient.transaction() calls, outermost first
    log,                \* statements handed to the backend during the current
                        \* attempt of the root call, with their replies
    count,              \* what the root call did over all its attempts
    outcome,            \* settlement of the root transaction() promise
    db,                 \* the Postgres session behind the client
    ops,                \* unit-of-work operations issued in the current attempt
    nextSp,             \* source of savepoint names (getRandomString)
    delay,              \* the delay of the pending setTimeout (0: no timer)
    signalled,          \* calls of the current attempt whose rejection handler
                        \* received their own rollback signal (NullSp: the root)
    rtx,                \* the in-flight RedisClient.transaction() call
    rdb,                \* the Redis connection behind the client
    pool,               \* the pool connection behind the Postgres client
    svc,                \* the Postgres / Redis service: pools and connect() calls
    rq                  \* a RedisQueue on its own, with the operations applied to it

pgVars == <<frames, db, nextSp, signalled, delay>>
redisVars == <<rtx, rdb>>
\* what the transaction() calls read and write
txVars == <<active, transactionLevel, frames, log, count, outcome, db, ops, nextSp,
            signalled, delay, rtx, rdb>>
vars == <<txVars, pool, svc, rq>>

\* ------------------------------------------------------------------ errors
\* Every rejection value has the same shape.  Savepoint names, write ids and
\* result values are integers; "at" is the log position where the error arose.
\*   type "rollback": RollbackError; cls is the transaction() call whose
\*                    RollbackError class made it (the class is declared
\*                    inside transaction(), one per call)
\*   type "query":    WError of PostgresClient.query, info.sql_state = code
\*   type "contract": 'function must return a Promise'
\*   type "app":      an error thrown by caller code
\*   type "type":     TypeError (params.isolation is undefined)
\*   type "retries":  'Maximum transaction retries reached', cause = at
\* name and msg: the params.name the message was built with ("" when the
\* caller gave none) and the parts of the message, for the errors whose
\* message the model needs.
Err(type, code, cls, sp, result, at) ==
    [type |-> type, code |-> code, cls |-> cls, savepoint |-> sp,
     result |-> result, at |-> at, name |-> "", msg |-> <<>>]

\* params.name as the caller may give it ("": none given)
Names == {"", "JobRepository.processPending"}

\* 'Maximum transaction retries reached' + (params.name ? ` in ${params.name}` : '')
MaxRetriesMessage(name) ==
    <<"Maximum transaction retries reached">>
    \o (IF name # "" THEN <<" in ", name>> ELSE <<>>)

NoError == Err("none", "", NullSp, NullSp, 0, 0)

\* rollback(savepoint)(result): lines 139-149
rollback(cls, savepoint, result, at) ==
    Err("rollback", "", cls, savepoint, result, at)

\* new WError({cause, info: {sql_state}}, 'Query failed'): lines 97-109
QueryError(code, at) == Err("query", code, NullSp, NullSp, 0, at)

\* What a unit of work may return: null, a value that is not an object, an
\* object without a then function, a promise.
ReturnKinds == {"null", "nonObject", "noThen", "promise"}
NonPromises == ReturnKinds \ {"promise"}
\* typeof result
typeOf(result) == IF result = "nonObject" THEN "number" ELSE "object"
\* typeof result.then (of a non-null object)
typeOfThen(result) == IF result = "promise" THEN "function" ELSE "undefined"
\* the value a transaction would resolve to had a non-promise passed the test
NonPromiseValue == 7

\* the test reduced to typeof result == 'object'
isPromiseLikeTypeofOnly(result) == typeOf(result) = "object"

\* the negation of "result === null || typeof result != 'object' ||
\* typeof result.then != 'function'": lines 158, 197 and part_009:162
isPromiseLike(result) ==
    ~(result = "null" \/ typeOf(result) # "object" \/ typeOfThen(result) # "function")

\* throw new Error('Transaction ... function must return a Promise')
ContractError(at) == Err("contract", "", NullSp, NullSp, 0, at)
\* an Error of the caller's own, thrown by the unit of work at depth d
AppError(d, at) == Err("app", "", d, NullSp, 0, at)
\* a rejection value that is not an Error object, such as the string
\* RedisClient.query rejects with (part_009:98)
NonError(at) == Err("nonError", "", NullSp, NullSp, 0, at)
\* params.isolation.toUpperCase() with params.isolation undefined
IsolationTypeError == Err("type", "", NullSp, NullSp, 0, 0)
\* new WError(error, 'Maximum transaction retries reached' + ...): 219-223
MaxRetriesError(cause, name) ==
    [Err("retries", cause.code, NullSp, NullSp, 0, cause.at)
        EXCEPT !.name = name, !.msg = MaxRetriesMessage(name)]

\* VError.info(error) takes Error objects only: handed anything else its
\* assertion throws (line 217 is where cleanup() calls it)
isError(error) == error.type # "nonError"

\* VError.info(error).sql_state
SqlState(error) == IF error.type \in {"query", "retries"} THEN error.code ELSE ""

\* getRandomInt without "+ min"
getRandomIntNoOffset(min, max, r) == (r * (max - min + 1)) \div 1000

\* Util.getRandomInt(min, max): Math.floor(Math.random() * (max - min + 1)) + min
\* with Math.random() = r / 1000
getRandomInt(min, max, r) == (r * (max - min + 1)) \div 1000 + min

\* ----------------------------------------------------------------- backend
InitDb == [open |-> FALSE, aborted |-> FALSE, pending |-> <<>>, committed |-> {}]

HasSavepoint(d, sp) ==
    \E i \in 1..Len(d.pending) : d.pending[i].kind = "sp" /\ d.pending[i].id = sp

SavepointIndex(d, sp) ==
    CHOOSE i \in 1..Len(d.pending) :
        /\ d.pending[i].kind = "sp" /\ d.pending[i].id = sp
        /\ \A j \in (i+1)..Len(d.pending) :
              ~(d.pending[j].kind = "sp" /\ d.pending[j].id = sp)

PendingWrites(d) ==
    {[id |-> d.pending[i].id, attempt |-> d.pending[i].attempt,
      scope |-> d.pending[i].scope] :
        i \in {j \in 1..Len(d.pending) : d.pending[j].kind = "w"}}

\* The replies the server can give to a statement in session state d.
Replies(d, stmt, arg) ==
    CASE stmt = "BEGIN" -> {"ok", SerializationFailure, OtherFailure}
      [] stmt = "COMMIT" ->
            IF d.open /\ ~d.aborted
            THEN {"ok", SerializationFailure, OtherFailure}
            ELSE {"ok"}
      [] stmt = "ROLLBACK" -> {"ok", OtherFailure}
      [] stmt = "WRITE" ->
            IF d.open /\ d.aborted THEN {InFailedTransaction}
            ELSE {"ok", SerializationFailure, OtherFailure}
      [] stmt = "SAVEPOINT" ->
            IF ~d.open THEN {NoActiveTransaction}
            ELSE IF d.aborted THEN {InFailedTransaction}
            ELSE {"ok", OtherFailure}
      [] stmt = "ROLLBACK TO" ->
            IF ~d.open THEN {NoActiveTransaction}
            ELSE IF ~HasSavepoint(d, arg) THEN {OtherFailure}
            ELSE {"ok", OtherFailure}

\* The session after the statement was answered with reply.
Exec(d, stmt, arg, attempt, scope, reply) ==
    CASE stmt = "BEGIN" ->
            IF reply = "ok" /\ ~d.open
            THEN [d EXCEPT !.open = TRUE, !.aborted = FALSE, !.pending = <<>>]
            ELSE d
      [] stmt = "COMMIT" ->
            IF ~d.open THEN d
            ELSE IF reply = "ok" /\ ~d.aborted
            THEN [open |-> FALSE, aborted |-> FALSE, pending |-> <<>>,
                  committed |-> d.committed \cup PendingWrites(d)]
            ELSE [d EXCEPT !.open = FALSE, !.aborted = FALSE, !.pending = <<>>]
      [] stmt = "ROLLBACK" ->
            [d EXCEPT !.open = FALSE, !.aborted = FALSE, !.pending = <<>>]
      [] stmt = "WRITE" ->
            IF reply = "ok"
            THEN IF d.open
                 THEN [d EXCEPT !.pending =
                          Append(@, [kind |-> "w", id |-> arg, attempt |-> attempt,
                                     scope |-> scope])]
                 ELSE [d EXCEPT !.committed =
                          @ \cup {[id |-> arg, attempt |-> attempt,
                                   scope |-> scope]}]
            ELSE IF d.open THEN [d EXCEPT !.aborted = TRUE] ELSE d
      [] stmt = "SAVEPOINT" ->
            IF reply = "ok"
            THEN [d EXCEPT !.pending =
                     Append(@, [kind |-> "sp", id |-> arg, attempt |-> attempt,
                                scope |-> scope])]
            ELSE IF d.open THEN [d EXCEPT !.aborted = TRUE] ELSE d
      [] stmt = "ROLLBACK TO" ->
            IF reply = "ok"
            THEN [d EXCEPT !.aborted = FALSE,
                           !.pending = SubSeq(@, 1, SavepointIndex(d, arg))]
            ELSE IF d.open THEN [d EXCEPT !.aborted = TRUE] ELSE d

\* One entry of the statement log.  arg is the savepoint name or the id of
\* the write; scope lists the savepoints open around a unit-of-work statement.
ScopedEntry(stmt, arg, scope, reply) ==
    [stmt |-> stmt, arg |-> arg, scope |-> scope, reply |-> reply]
Entry(stmt, arg, reply) == ScopedEntry(stmt, arg, <<>>, reply)

\* ------------------------------------------------------------------ frames
\* One record per transaction() call that has been entered and has not
\* settled.  The closure variables of the call are its fields:
\*   savepoint   the generated name (NullSp for the root call)
\*   started     transactionStarted (root) / savepointCreated (nested)
\*   numTries    the root call's retry counter
\*   isolation   params.isolation ("undefined" when the options lack it)
\*   error       the failure being handled
\*   result      what the unit of work's promise resolved to
\*   child       how the last nested call awaited by this unit of work ended
\*   pre         _transactionLevel just before the call (for the record)
NoChild == [st |-> "none", value |-> 0, error |-> NoError]

NewFrame(kind, pc, sp, isolation, error) ==
    [kind |-> kind, pc |-> pc, savepoint |-> sp, started |-> FALSE,
     numTries |-> 0, isolation |-> isolation, error |-> error,
     result |-> 0, child |-> NoChild, pre |-> transactionLevel]

Depth == Len(frames)
Top == frames[Len(frames)]
SetTop(f) == [frames EXCEPT ![Len(frames)] = f]

\* the frames without the innermost one, whose caller learns how it ended
PopWith(child) ==
    [i \in 1..(Len(frames) - 1) |->
        IF i = Len(frames) - 1
        THEN [frames[i] EXCEPT !.child = child]
        ELSE frames[i]]

\* savepoints enclosing a statement issued by the innermost unit of work
Scope == [i \in 1..(Len(frames) - 1) |-> frames[i + 1].savepoint]

\* the value the unit of work at depth d returns as its own result when it
\* is invoked in the given attempt
OwnResult(attempt, d) == 100 * attempt + d

\* error instanceof RollbackError, for the class declared by call cls
IsRollbackError(error, cls) == error.type = "rollback" /\ error.cls = cls

\* cleanup() without the RollbackError branch of lines 214-215
cleanupSignalRejected(error, numTries) ==
    IF SqlState(error) = SerializationFailure
    THEN IF numTries + 1 > maxTransactionRetries THEN "exhausted" ELSE "retry"
    ELSE "reject"

\* cleanup() with the budget test of line 218 off by one (>= for >)
cleanupOffByOne(error, numTries) ==
    IF IsRollbackError(error, NullSp) THEN "resolve"
    ELSE IF SqlState(error) = SerializationFailure
         THEN IF numTries + 1 >= maxTransactionRetries THEN "exhausted"
              ELSE "retry"
         ELSE "reject"

\* cleanup() retrying on every query error, whatever its sql_state
cleanupRetriesAnyQueryError(error, numTries) ==
    IF IsRollbackError(error, NullSp) THEN "resolve"
    ELSE IF SqlState(error) # ""
         THEN IF numTries + 1 > maxTransactionRetries THEN "exhausted"
              ELSE "retry"
         ELSE "reject"

\* cleanup(): lines 213-239.  What the root does with a failed attempt;
\* "throw" when cleanup() itself throws, so that neither resolve nor reject
\* is called.
cleanup(error, numTries) ==
    IF IsRollbackError(error, NullSp) THEN "resolve"
    ELSE IF ~isError(error) THEN "throw"
    ELSE IF SqlState(error) = SerializationFailure
         THEN IF numTries + 1 > maxTransactionRetries THEN "exhausted"
              ELSE "retry"
         ELSE "reject"

\* the nested handler rethrowing every error (no branch of lines 174-182)
nestedHandlerRethrows(error, savepoint, savepointCreated) == "throw"

\* the nested handler with the test of line 175 inverted: the signal is
\* answered without ROLLBACK TO although the savepoint exists
nestedHandlerSkipsRollbackTo(error, savepoint, savepointCreated) ==
    IF IsRollbackError(error, savepoint) /\ error.savepoint = savepoint
    THEN IF savepointCreated THEN "resolve" ELSE "rollbackTo"
    ELSE "throw"

\* the nested handler taking every rollback signal for its own (line 174
\* without the comparison of the savepoint)
nestedHandlerAnySignal(error, savepoint, savepointCreated) ==
    IF error.type = "rollback"
    THEN IF ~savepointCreated THEN "resolve" ELSE "rollbackTo"
    ELSE "throw"

\* the nested handler answering a conflict itself instead of rethrowing it
nestedHandlerSwallowsConflict(error, savepoint, savepointCreated) ==
    IF IsRollbackError(error, savepoint) /\ error.savepoint = savepoint
    THEN IF ~savepointCreated THEN "resolve" ELSE "rollbackTo"
    ELSE IF SqlState(error) = SerializationFailure THEN "resolve"
    ELSE "throw"

\* the rejection handler of a nested call: lines 172-184
nestedHandler(error, savepoint, savepointCreated) ==
    IF IsRollbackError(error, savepoint) /\ error.savepoint = savepoint
    THEN IF ~savepointCreated THEN "resolve" ELSE "rollbackTo"
    ELSE "throw"

\* lines 241-245 without the ROLLBACK TRANSACTION query
rollbackNever(transactionStarted) == FALSE

\* line 241 with the test inverted
rollbackWhenNotStarted(transactionStarted) == ~transactionStarted

\* lines 241-242 left out: ROLLBACK TRANSACTION after every failure
rollbackAlways(transactionStarted) == TRUE

\* if (!transactionStarted) return cleanup(); else ROLLBACK first: 241-245
rollbackNeeded(transactionStarted) == transactionStarted

\* the savepoint created just before the call's own
rollbackToOuter(f) == f.savepoint - 1

\* "ROLLBACK TO " + savepoint: line 178
rollbackToTarget(f) == f.savepoint

\* the fulfilment handler without its return statement
nestedValueDropped(value) == 0

\* value => { this._transactionLevel--; return value; }: what the nested call
\* resolves to (lines 168-171)
nestedValue(value) == value

\* the nested rejection handler without its decrement
levelNotDecremented(level) == level

\* the nested rejection handler decrementing twice
levelDecrementedTwice(level) == level - 2

\* this._transactionLevel-- in the nested rejection handler: line 173
levelAfterNestedError(level) == level - 1

\* the root frame after cleanup() has classified its failure
AfterCleanup(f, name) ==
    LET c == cleanup(f.error, f.numTries) IN
    CASE c = "resolve" -> [f EXCEPT !.pc = "resolve", !.result = f.error.result]
      [] c = "exhausted" ->
            [f EXCEPT !.pc = "reject", !.numTries = @ + 1,
                      !.error = MaxRetriesError(f.error, name)]
      [] c = "retry" -> [f EXCEPT !.pc = "delay", !.numTries = @ + 1]
      [] c = "reject" -> [f EXCEPT !.pc = "reject"]
      [] c = "throw" -> [f EXCEPT !.pc = "hung"]

\* ------------------------------------------------------------ RedisClient
\* RedisClient.query looks the command up on this._client (line 96); the
\* constructor (lines 69-77) sets these fields only.
RedisClientFields ==
    {"client", "maxTransactionRetries", "minTransactionDelay",
     "maxTransactionDelay", "_redis", "_transactionLevel"}
QueryClientField == "_client"

\* query(command, params): lines 92-109.  "sent" when the native command is
\* invoked; otherwise how the promise rejects without anything being sent.
query(command, known) ==
    IF QueryClientField \notin RedisClientFields THEN "TypeError"
    ELSE IF ~known THEN "Unknown command"
    ELSE "sent"

RedisError(type, at) == Err(type, "", NullSp, NullSp, 0, at)

\* new Error('Maximum transaction retries reached' + ...): lines 196-199
RedisMaxRetriesError(name, at) ==
    [RedisError("retries", at) EXCEPT !.name = name, !.msg = MaxRetriesMessage(name)]

\* the budget test with >= for >
numTriesExceededEarly(numTries) == numTries + 1 >= maxTransactionRetries

\* if (++numTries > this.maxTransactionRetries): line 195
numTriesExceeded(numTries) == numTries + 1 > maxTransactionRetries

\* an EXEC error taken for a null result
execResultErrorRetried(reply, numTries) ==
    IF reply \in {"error", "null"}
    THEN (IF numTriesExceeded(numTries) THEN "reject" ELSE "delay")
    ELSE "resolve"

\* What becomes of the attempt once queue._multi.exec has called back (lines
\* 180-214): an error rejects the inner promise and reaches .catch(), null
\* replies retry after a delay or exhaust the budget, replies resolve.
execResult(reply, numTries) ==
    CASE reply = "error" -> "catch"
      [] reply = "null" -> IF numTriesExceeded(numTries) THEN "reject" ELSE "delay"
      [] OTHER -> "resolve"

\* line 130 without the decrement of line 131
levelLeftIncremented(level) == level + 1

\* if (++this._transactionLevel != 1) { this._transactionLevel--; ... }:
\* the counter after a call that found a transaction running (130-131)
levelAfterNestedCall(level) ==
    IF level + 1 # 1 THEN (level + 1) - 1 ELSE level + 1

\* the empty flag never set
queueNeverEmpty(queue) == FALSE

\* RedisQueue.empty: true from the constructor and clear(), false after add()
\* (lines 27, 38, 52)
queueEmpty(queue) == queue.empty

\* new RedisQueue(client): lines 26-31.  multi is the pending batch (_multi).
RedisQueue == [multi |-> <<>>, empty |-> TRUE, thrown |-> FALSE]

\* clear(): lines 36-39
clear(queue) == [multi |-> <<>>, empty |-> TRUE, thrown |-> FALSE]

\* add() setting the flag before the lookup
addMarksFirst(queue, known, command) ==
    IF ~known THEN [queue EXCEPT !.empty = FALSE, !.thrown = TRUE]
    ELSE [multi |-> Append(queue.multi, command), empty |-> FALSE, thrown |-> FALSE]

\* add(command, params): lines 46-53; known is whether the Multi object has
\* a method of that name; thrown tells the throw of line 49
add(queue, known, command) ==
    IF ~known THEN [queue EXCEPT !.thrown = TRUE]
    ELSE [multi |-> Append(queue.multi, command), empty |-> FALSE, thrown |-> FALSE]

\* the queue of the running call
Queue(call) == [multi |-> call.queue, empty |-> call.empty, thrown |-> FALSE]

\* one queue for the whole call, made before tryAgain
attemptQueueShared(previous) == previous

\* let queue = new RedisQueue(this.client) at the top of tryAgain(): lines
\* 151-152; previous is the queue the attempt before used
attemptQueue(previous) == RedisQueue

\* the pair without the replies
resolutionWithoutReplies(result, replies) == <<result, <<>>>>

\* resolve([ result, replies ]): line 214
resolution(result, replies) == <<result, replies>>

\* The connection: watching (an optimistic lock is set), dirty (a watched
\* key was written by another client since), applied (commands executed).
InitRdb == [watching |-> FALSE, dirty |-> FALSE, applied |-> {}]

\* The call: the closure variables of transaction() and tryAgain().
NewRtx ==
    [pc |-> "idle", watch |-> {}, numTries |-> 0, watched |-> FALSE,
     queue |-> <<>>, empty |-> TRUE, error |-> NoError, result |-> 0,
     replies |-> <<>>, child |-> NoChild, pre |-> 0]

WatchKeys == {"k1", "k2"}

\* unwatch(): lines 138-147; every UNWATCH goes through query()
unwatch(d, keys) ==
    IF keys # {} /\ query("UNWATCH", TRUE) = "sent"
    THEN [d EXCEPT !.watching = FALSE, !.dirty = FALSE]
    ELSE d

\* transaction(): lines 120-136 and 149-150, 225.  args as for Postgres;
\* watch is the options' watch list ({} when only a callback is given).
rTransaction(args, watch) ==
    /\ active = "redis"
    /\ rtx.pc = "idle"
    /\ outcome.st = "idle"
    /\ args = "cb" => watch = {}
    /\ args = "name" => watch = {}
    /\ transactionLevel' = transactionLevel + 1
    /\ rtx' = IF args = "name"
              THEN [NewRtx EXCEPT !.pc = "reject", !.error = RedisError("type", 0),
                                  !.pre = transactionLevel]
              ELSE [NewRtx EXCEPT !.pc = "watch", !.watch = watch,
                                  !.pre = transactionLevel]
    /\ outcome' = [outcome EXCEPT !.st = "pending"]
    /\ UNCHANGED <<active, pool, svc, rq, log, count, ops, pgVars, rdb>>

\* tryAgain(): a new queue, WATCH for every key, then the unit of work is
\* invoked: lines 151-171
rTryAgain ==
    /\ active = "redis"
    /\ rtx.pc = "watch"
    /\ LET sent == rtx.watch # {} /\ query("WATCH", TRUE) = "sent"
           failed == rtx.watch # {} /\ query("WATCH", TRUE) # "sent" IN
       /\ rdb' = IF sent THEN [rdb EXCEPT !.watching = TRUE, !.dirty = FALSE] ELSE rdb
       /\ log' = IF sent THEN Append(log, Entry("WATCH", NullSp, "ok")) ELSE log
       /\ rtx' = IF failed
                 THEN [rtx EXCEPT !.pc = "catch",
                                  !.queue = attemptQueue(Queue(rtx)).multi,
                                  !.empty = attemptQueue(Queue(rtx)).empty,
                                  !.watched = FALSE,
                                  !.error = RedisError("type", Len(log))]
                 ELSE [rtx EXCEPT !.pc = "run",
                                  !.queue = attemptQueue(Queue(rtx)).multi,
                                  !.empty = attemptQueue(Queue(rtx)).empty,
                                  !.watched = TRUE]
       /\ count' = [count EXCEPT !.begin = @ + 1,
                                 !.cb = IF failed THEN @ ELSE @ + 1]
    /\ UNCHANGED <<active, pool, svc, rq, transactionLevel, outcome, ops, pgVars>>

rWorking == active = "redis" /\ rtx.pc = "run" /\ rtx.child.st # "rejected"

\* queue.add(command, params): lines 46-53; an unknown command throws
rUowAdd(known) ==
    /\ rWorking
    /\ ops < MaxOps
    /\ ops' = ops + 1
    /\ LET q == add(Queue(rtx), known, [attempt |-> count.begin, n |-> ops + 1]) IN
       rtx' = IF q.thrown
              THEN [rtx EXCEPT !.queue = q.multi, !.empty = q.empty, !.pc = "catch",
                               !.error = RedisError("unknownMulti", Len(log))]
              ELSE [rtx EXCEPT !.queue = q.multi, !.empty = q.empty]
    /\ UNCHANGED <<active, pool, svc, rq, transactionLevel, log, count, outcome, pgVars, rdb>>

\* queue.clear(): lines 36-39
rUowClear ==
    /\ rWorking
    /\ ops < MaxOps
    /\ ops' = ops + 1
    /\ LET q == clear(Queue(rtx)) IN
       rtx' = [rtx EXCEPT !.queue = q.multi, !.empty = q.empty]
    /\ UNCHANGED <<active, pool, svc, rq, transactionLevel, log, count, outcome, pgVars, rdb>>

\* the unit of work sets WATCH through the native client (client.client)
rUowWatch ==
    /\ rWorking
    /\ ops < MaxOps
    /\ ~rdb.watching
    /\ ops' = ops + 1
    /\ rdb' = [rdb EXCEPT !.watching = TRUE, !.dirty = FALSE]
    /\ log' = Append(log, Entry("WATCH", NullSp, "ok"))
    /\ UNCHANGED <<active, pool, svc, rq, transactionLevel, count, outcome, pgVars, rtx>>

\* the unit of work calls transaction() again on the same client: 130-136
rUowTransaction ==
    /\ rWorking
    /\ ops < MaxOps
    /\ ops' = ops + 1
    /\ transactionLevel' = levelAfterNestedCall(transactionLevel)
    /\ rtx' = [rtx EXCEPT !.child = [st |-> "rejected", value |-> 0,
                                     error |-> RedisError("nested", Len(log))]]
    /\ UNCHANGED <<active, pool, svc, rq, log, count, outcome, pgVars, rdb>>

\* the rejected nested call is let through or caught by the unit of work
rUowDecide(propagate) ==
    /\ active = "redis" /\ rtx.pc = "run" /\ rtx.child.st = "rejected"
    /\ rtx' = IF propagate
              THEN [rtx EXCEPT !.pc = "catch", !.error = rtx.child.error,
                               !.child = NoChild]
              ELSE [rtx EXCEPT !.child = NoChild]
    /\ UNCHANGED <<active, pool, svc, rq, transactionLevel, log, count, outcome, ops, pgVars, rdb>>

\* how the unit of work ends: its promise resolves ("return"), it returns
\* something that is not a promise (NonPromises), or it throws ("throw")
rUowEnd(how) ==
    /\ rWorking
    /\ rtx' = CASE how = "return" ->
                     [rtx EXCEPT !.pc = "cbResolved",
                                 !.result = OwnResult(count.begin, 1)]
                [] how \in NonPromises ->
                     IF isPromiseLike(how)
                     THEN [rtx EXCEPT !.pc = "cbResolved", !.result = NonPromiseValue]
                     ELSE [rtx EXCEPT !.pc = "catch",
                                      !.error = ContractError(Len(log))]
                [] how = "throw" ->
                     [rtx EXCEPT !.pc = "catch", !.error = AppError(1, Len(log))]
    /\ UNCHANGED <<active, pool, svc, rq, transactionLevel, log, count, outcome, ops, pgVars, rdb>>

\* another client writes a key this connection watches
otherWriter ==
    /\ active = "redis"
    /\ rdb.watching /\ ~rdb.dirty
    /\ rdb' = [rdb EXCEPT !.dirty = TRUE]
    /\ UNCHANGED <<active, pool, svc, rq, transactionLevel, log, count, outcome, ops, pgVars, rtx>>

\* after the unit of work resolved: UNWATCH for an empty queue, EXEC for a
\* non-empty one, then the replies are classified: lines 172-215.
\* reply is "replies", "null" or "error"; name is params.name, which is read
\* only where a message is built.
rExec(reply, name) ==
    /\ active = "redis"
    /\ rtx.pc = "cbResolved"
    /\ IF queueEmpty(Queue(rtx))
       THEN /\ reply = "replies"
            /\ rdb' = IF rtx.watched THEN unwatch(rdb, rtx.watch) ELSE rdb
            /\ log' = IF rtx.watched /\ rdb' # rdb
                      THEN Append(log, Entry("UNWATCH", NullSp, "ok")) ELSE log
            /\ rtx' = [rtx EXCEPT !.pc = "resolve", !.watched = FALSE,
                                  !.result = resolution(rtx.result, <<>>)[1],
                                  !.replies = resolution(rtx.result, <<>>)[2]]
            /\ count' = count
       ELSE /\ reply \in (IF rdb.watching /\ rdb.dirty THEN {"null"}
                          ELSE {"replies", "error"})
            /\ rdb' = [watching |-> FALSE, dirty |-> FALSE,
                       applied |-> IF reply = "replies"
                                   THEN rdb.applied \cup {rtx.queue[i] :
                                                          i \in 1..Len(rtx.queue)}
                                   ELSE rdb.applied]
            /\ log' = Append(log, Entry("EXEC", NullSp, reply))
            /\ rtx' = LET c == execResult(reply, rtx.numTries) IN
                      CASE c = "catch" ->
                             [rtx EXCEPT !.pc = "catch", !.watched = FALSE,
                                         !.error = RedisError("exec", Len(log) + 1)]
                        [] c = "reject" ->
                             [rtx EXCEPT !.pc = "reject", !.watched = FALSE,
                                         !.numTries = @ + 1,
                                         !.error = RedisMaxRetriesError(
                                                       name, Len(log) + 1)]
                        [] c = "delay" ->
                             [rtx EXCEPT !.pc = "delay", !.watched = FALSE,
                                         !.numTries = @ + 1]
                        [] c = "resolve" ->
                             [rtx EXCEPT !.pc = "resolve", !.watched = FALSE,
                                         !.result = resolution(rtx.result,
                                                               rtx.queue)[1],
                                         !.replies = resolution(rtx.result,
                                                                rtx.queue)[2]]
            /\ count' = [count EXCEPT
                            !.commit = @ + 1,
                            !.warn = IF execResult(reply, rtx.numTries) = "delay"
                                     THEN @ + 1 ELSE @]
    /\ UNCHANGED <<active, pool, svc, rq, transactionLevel, outcome, ops, pgVars>>

\* .catch(): UNWATCH when watched, then reject(error): lines 217-223
rCatch ==
    /\ active = "redis"
    /\ rtx.pc = "catch"
    /\ rdb' = IF rtx.watched THEN unwatch(rdb, rtx.watch) ELSE rdb
    /\ log' = IF rdb' # rdb THEN Append(log, Entry("UNWATCH", NullSp, "ok")) ELSE log
    /\ rtx' = [rtx EXCEPT !.pc = "reject", !.watched = FALSE]
    /\ UNCHANGED <<active, pool, svc, rq, transactionLevel, count, outcome, ops, pgVars>>

\* setTimeout(() => { tryAgain(); }, delay): line 211
rRetry ==
    /\ active = "redis"
    /\ rtx.pc = "delay"
    /\ log' = <<Entry("DELAY", NullSp, "ok")>>
    /\ ops' = 0
    /\ rtx' = [rtx EXCEPT !.pc = "watch", !.error = NoError, !.result = 0,
                          !.child = NoChild]
    /\ UNCHANGED <<active, pool, svc, rq, transactionLevel, count, outcome, pgVars, rdb>>

\* the handlers chained on the promise: lines 227-236
rSettle ==
    /\ active = "redis"
    /\ rtx.pc \in {"resolve", "reject"}
    /\ transactionLevel' = transactionLevel - 1
    /\ outcome' = IF rtx.pc = "resolve"
                  THEN [st |-> "resolved", value |-> rtx.result, error |-> NoError]
                  ELSE [st |-> "rejected", value |-> 0, error |-> rtx.error]
    /\ rtx' = [rtx EXCEPT !.pc = "settled"]
    /\ UNCHANGED <<active, pool, svc, rq, log, count, ops, pgVars, rdb>>

\* ------------------------------------------------------- pool connection
\* pool.connect((error, client, done) => ...): the connection is checked out
\* and done is the pool's release function (part_008:340-345); released counts
\* the invocations of that function.
InitPool == [st |-> "checkedOut", reuseClient |-> FALSE, released |-> 0]

\* PostgresClient.done(): "return this._done;" (part_008:47-49).  The number
\* of invocations of the release function after one call of done().
done(released) == released

\* the handlers the repository chains on transaction(): "if (!reuseClient)
\* client.done();" on both the value and the error path (part_004:229-240).
\* reuseClient is whether the caller passed its own client.
repositorySettled(reuseClient) ==
    /\ active = "postgres"
    /\ outcome.st \in {"resolved", "rejected"}
    /\ pool.st = "checkedOut"
    /\ pool' = [st |-> "settled", reuseClient |-> reuseClient,
                released |-> IF ~reuseClient THEN done(pool.released)
                             ELSE pool.released]
    /\ UNCHANGED <<txVars, svc, rq>>

\* ------------------------------------------------ Postgres / Redis services
\* names handed to connect(); the keys of config.postgres / config.redis
ServerNames == {"main", "replica", "missing"}
ConfiguredServers == {"main", "replica"}

\* the check never fails
declaredAlways(name) == TRUE

\* if (!this._config.postgres[name]) / if (!this._config.redis[name]):
\* whether the configuration declares the server (part_008:320, part_009:286)
declared(name) == name \in ConfiguredServers

\* no pool is ever found
poolGetNothing(pools, name) == 0

\* this._pool.get(name): the handle stored for the name, 0 for undefined
\* (part_008:323)
poolGet(pools, name) == pools[name]

\* The service: pools is this._pool (name -> handle, 0: no entry), made the
\* pg.Pool objects / native Redis clients constructed so far, pending the
\* pool.connect() callbacks not yet called, checkedOut the connections handed
\* out, results the settlements of the connect() promises in order, queries
\* the RedisClient.query() calls made with their settlements, sent the
\* commands that reached the backend.
InitSvc ==
    [pools |-> [n \in ServerNames |-> 0], made |-> 0, pending |-> <<>>,
     checkedOut |-> 0, results |-> <<>>, queries |-> <<>>, sent |-> <<>>]

ConnectResult(name, st, error, handle) ==
    [name |-> name, st |-> st, error |-> error, handle |-> handle]

Connects == Len(svc.results) + Len(svc.pending)

RemoveAt(seq, i) == SubSeq(seq, 1, i - 1) \o SubSeq(seq, i + 1, Len(seq))

\* Postgres.connect(name): part_008:318-346, up to the call of pool.connect
pgConnect(name) ==
    /\ active = "postgres"
    /\ Connects < MaxConnects
    /\ IF ~declared(name)
       THEN svc' = [svc EXCEPT !.results =
                       Append(@, ConnectResult(name, "rejected", "undefinedServer", 0))]
       ELSE LET found == poolGet(svc.pools, name)
                handle == IF found = 0 THEN svc.made + 1 ELSE found IN
            svc' = [svc EXCEPT
                       !.made = IF found = 0 THEN @ + 1 ELSE @,
                       !.pools = IF found = 0 THEN [@ EXCEPT ![name] = handle] ELSE @,
                       !.pending = Append(@, [name |-> name, handle |-> handle])]
    /\ UNCHANGED <<txVars, pool, rq>>

\* the callback of pool.connect: part_008:340-345
pgConnected(i, error) ==
    /\ active = "postgres"
    /\ i \in 1..Len(svc.pending)
    /\ LET p == svc.pending[i] IN
       svc' = [svc EXCEPT
                  !.pending = RemoveAt(@, i),
                  !.checkedOut = IF error THEN @ ELSE @ + 1,
                  !.results = Append(@,
                      IF error
                      THEN ConnectResult(p.name, "rejected", "connectFailed", p.handle)
                      ELSE ConnectResult(p.name, "resolved", "", p.handle))]
    /\ UNCHANGED <<txVars, pool, rq>>

\* Redis.connect(name): part_009:284-304; throws is whether createClient throws
redisConnect(name, throws) ==
    /\ active = "redis"
    /\ Connects < MaxConnects
    /\ svc' = IF ~declared(name)
              THEN [svc EXCEPT !.results =
                       Append(@, ConnectResult(name, "rejected", "undefinedServer", 0))]
              ELSE IF throws
              THEN [svc EXCEPT !.results =
                       Append(@, ConnectResult(name, "rejected", "connectFailed", 0))]
              ELSE [svc EXCEPT
                       !.made = @ + 1,
                       !.checkedOut = @ + 1,
                       !.results = Append(@, ConnectResult(name, "resolved", "",
                                                           svc.made + 1))]
    /\ UNCHANGED <<txVars, pool, rq>>

\* ------------------------------------------------------ RedisQueue alone
\* names handed to add(): two commands of the Multi object and one it lacks
Commands == {"SET", "DEL", "NOSUCH"}
MultiCommands == {"SET", "DEL"}

\* a fresh queue and no operation applied yet
InitRq == [queue |-> RedisQueue, history |-> <<>>]

\* queue.add(command, params) by any holder of the queue: lines 46-53
queueAdd(command) ==
    /\ Len(rq.history) < MaxQueueOps
    /\ rq' = [queue |-> add(rq.queue, command \in MultiCommands, command),
              history |-> Append(rq.history, command)]
    /\ UNCHANGED <<txVars, pool, svc>>

\* queue.clear(): lines 36-39
queueClear ==
    /\ Len(rq.history) < MaxQueueOps
    /\ rq' = [queue |-> clear(rq.queue), history |-> Append(rq.history, "clear")]
    /\ UNCHANGED <<txVars, pool, svc>>

\* client.query(command, params) on a client that Redis.connect() returned
\* (as cacher.js:85 does): part_009:92-109.  reply is the backend's answer to
\* a command that was sent.
redisQuery(command, reply) ==
    /\ active = "redis"
    /\ svc.checkedOut > 0
    /\ Len(svc.queries) < MaxQueries
    /\ LET how == query(command, command \in MultiCommands) IN
       svc' = [svc EXCEPT
                  !.sent = IF how = "sent" THEN Append(@, command) ELSE @,
                  !.queries = Append(@,
                      [command |-> command,
                       settled |-> IF how # "sent" THEN how
                                   ELSE IF reply = "error" THEN "Command failed"
                                   ELSE "resolved"])]
    /\ UNCHANGED <<txVars, pool, rq>>

\* -------------------------------------------------------------------- Init
Init ==
    /\ active \in {"postgres", "redis"}
    /\ transactionLevel = 0
    /\ frames = <<>>
    /\ log = <<>>
    /\ count = [begin |-> 0, cb |-> 0, commit |-> 0, rollback |-> 0, warn |-> 0]
    /\ outcome = [st |-> "idle", value |-> 0, error |-> NoError]
    /\ db = InitDb
    /\ ops = 0
    /\ nextSp = 1
    /\ signalled = {}
    /\ delay = 0
    /\ rtx = NewRtx
    /\ rdb = InitRdb
    /\ pool = InitPool
    /\ svc = InitSvc
    /\ rq = InitRq

\* ------------------------------------------------ PostgresClient, root call
\* transaction(): lines 126-151 and 188-189, 248.  args is how it is called:
\* "cb" (callback only), "options" (name and isolation), "name" (name only).
transaction(args) ==
    /\ active = "postgres"
    /\ frames = <<>>
    /\ outcome.st = "idle"
    /\ transactionLevel' = transactionLevel + 1
    /\ frames' = IF args = "name"
                 THEN <<NewFrame("root", "reject", NullSp, "undefined",
                                 IsolationTypeError)>>
                 ELSE <<NewFrame("root", "begin", NullSp, "serializable", NoError)>>
    /\ outcome' = [outcome EXCEPT !.st = "pending"]
    /\ UNCHANGED <<active, pool, svc, rq, log, count, db, ops, nextSp, signalled, delay, redisVars>>

\* tryAgain(): BEGIN and its reply, then the unit of work is invoked (190-205)
tryAgain(reply) ==
    /\ frames # <<>> /\ Top.kind = "root" /\ Top.pc = "begin"
    /\ reply \in Replies(db, "BEGIN", NullSp)
    /\ log' = Append(log, Entry("BEGIN", NullSp, reply))
    /\ db' = Exec(db, "BEGIN", NullSp, count.begin, <<>>, reply)
    /\ frames' = IF reply = "ok"
                 THEN SetTop([Top EXCEPT !.started = TRUE, !.pc = "run"])
                 ELSE SetTop([Top EXCEPT !.pc = "catch",
                                         !.error = QueryError(reply, Len(log) + 1)])
    /\ count' = [count EXCEPT !.begin = @ + 1,
                              !.cb = IF reply = "ok" THEN @ + 1 ELSE @]
    /\ UNCHANGED <<active, pool, svc, rq, transactionLevel, outcome, ops, nextSp, signalled, delay, redisVars>>

\* COMMIT after the unit of work resolved: lines 206-211
commit(reply) ==
    /\ frames # <<>> /\ Top.kind = "root" /\ Top.pc = "cbResolved"
    /\ reply \in Replies(db, "COMMIT", NullSp)
    /\ log' = Append(log, Entry("COMMIT", NullSp, reply))
    /\ db' = Exec(db, "COMMIT", NullSp, count.begin, <<>>, reply)
    /\ frames' = IF reply = "ok"
                 THEN SetTop([Top EXCEPT !.pc = "resolve"])
                 ELSE SetTop([Top EXCEPT !.pc = "catch",
                                         !.error = QueryError(reply, Len(log) + 1)])
    /\ count' = [count EXCEPT !.commit = @ + 1]
    /\ UNCHANGED <<active, pool, svc, rq, transactionLevel, outcome, ops, nextSp, signalled, delay, redisVars>>

\* .catch(): ROLLBACK when the transaction was started, then cleanup (212-246);
\* name is params.name, which is read only where a message is built
catchError(reply, name) ==
    /\ frames # <<>> /\ Top.kind = "root" /\ Top.pc = "catch"
    /\ IF rollbackNeeded(Top.started)
       THEN /\ reply \in Replies(db, "ROLLBACK", NullSp)
            /\ log' = Append(log, Entry("ROLLBACK", NullSp, reply))
            /\ db' = Exec(db, "ROLLBACK", NullSp, count.begin, <<>>, reply)
       ELSE /\ reply = "ok"
            /\ UNCHANGED <<log, db>>
    /\ frames' = SetTop(AfterCleanup(Top, name))
    /\ count' = [count EXCEPT
                    !.rollback = IF rollbackNeeded(Top.started) THEN @ + 1 ELSE @,
                    !.warn = IF cleanup(Top.error, Top.numTries) = "retry"
                             THEN @ + 1 ELSE @]
    /\ signalled' = IF IsRollbackError(Top.error, NullSp)
                    THEN signalled \cup {NullSp} ELSE signalled
    /\ IF cleanup(Top.error, Top.numTries) = "retry"
       THEN \E r \in Randoms :
               delay' = getRandomInt(minTransactionDelay, maxTransactionDelay, r)
       ELSE delay' = delay
    /\ UNCHANGED <<active, pool, svc, rq, transactionLevel, outcome, ops, nextSp, redisVars>>

\* setTimeout(() => { tryAgain(); }, delay): line 235 and 190-192
retry ==
    /\ frames # <<>> /\ Top.kind = "root" /\ Top.pc = "delay"
    /\ log' = <<Entry("DELAY", NullSp, "ok")>>
    /\ ops' = 0
    /\ nextSp' = 1
    /\ signalled' = {}
    /\ delay' = 0
    /\ frames' = SetTop([Top EXCEPT !.pc = "begin", !.started = FALSE,
                                    !.error = NoError, !.result = 0,
                                    !.child = NoChild])
    /\ UNCHANGED <<active, pool, svc, rq, transactionLevel, count, outcome, db, redisVars>>

\* the handlers chained on the root promise: lines 250-259
settle ==
    /\ frames # <<>> /\ Top.kind = "root" /\ Top.pc \in {"resolve", "reject"}
    /\ transactionLevel' = transactionLevel - 1
    /\ outcome' = IF Top.pc = "resolve"
                  THEN [st |-> "resolved", value |-> Top.result, error |-> NoError]
                  ELSE [st |-> "rejected", value |-> 0, error |-> Top.error]
    /\ frames' = <<>>
    /\ UNCHANGED <<active, pool, svc, rq, log, count, db, ops, nextSp, signalled, delay, redisVars>>

\* ---------------------------------------------- PostgresClient, nested call
\* SAVEPOINT and its reply, then the unit of work is invoked: lines 154-166
savepoint(reply) ==
    /\ frames # <<>> /\ Top.kind = "nested" /\ Top.pc = "savepoint"
    /\ reply \in Replies(db, "SAVEPOINT", Top.savepoint)
    /\ log' = Append(log, Entry("SAVEPOINT", Top.savepoint, reply))
    /\ db' = Exec(db, "SAVEPOINT", Top.savepoint, count.begin, <<>>, reply)
    /\ frames' = IF reply = "ok"
                 THEN SetTop([Top EXCEPT !.started = TRUE, !.pc = "run"])
                 ELSE SetTop([Top EXCEPT !.pc = "catch",
                                         !.error = QueryError(reply, Len(log) + 1)])
    /\ UNCHANGED <<active, pool, svc, rq, transactionLevel, count, outcome, ops, nextSp, signalled, delay, redisVars>>

\* value => { this._transactionLevel--; return value; }: lines 168-171
nestedResolve ==
    /\ frames # <<>> /\ Top.kind = "nested" /\ Top.pc = "cbResolved"
    /\ transactionLevel' = transactionLevel - 1
    /\ frames' = PopWith([st |-> "resolved", value |-> nestedValue(Top.result),
                          error |-> NoError])
    /\ UNCHANGED <<active, pool, svc, rq, log, count, outcome, db, ops, nextSp, signalled, delay, redisVars>>

\* error => { this._transactionLevel--; ... }: lines 172-184
nestedReject ==
    /\ frames # <<>> /\ Top.kind = "nested" /\ Top.pc = "catch"
    /\ transactionLevel' = levelAfterNestedError(transactionLevel)
    /\ LET h == nestedHandler(Top.error, Top.savepoint, Top.started) IN
       frames' = CASE h = "rollbackTo" -> SetTop([Top EXCEPT !.pc = "rollbackTo"])
                   [] h = "resolve" ->
                        PopWith([st |-> "resolved", value |-> Top.error.result,
                                 error |-> NoError])
                   [] h = "throw" ->
                        PopWith([st |-> "rejected", value |-> 0, error |-> Top.error])
    /\ signalled' = IF IsRollbackError(Top.error, Top.savepoint)
                    THEN signalled \cup {Top.savepoint} ELSE signalled
    /\ UNCHANGED <<active, pool, svc, rq, log, count, outcome, db, ops, nextSp, delay, redisVars>>

\* this.query("ROLLBACK TO " + savepoint).then(() => error.result): 178-181
rollbackTo(reply) ==
    /\ frames # <<>> /\ Top.kind = "nested" /\ Top.pc = "rollbackTo"
    /\ reply \in Replies(db, "ROLLBACK TO", rollbackToTarget(Top))
    /\ log' = Append(log, Entry("ROLLBACK TO", rollbackToTarget(Top), reply))
    /\ db' = Exec(db, "ROLLBACK TO", rollbackToTarget(Top), count.begin, <<>>, reply)
    /\ frames' = IF reply = "ok"
                 THEN PopWith([st |-> "resolved", value |-> Top.error.result,
                               error |-> NoError])
                 ELSE PopWith([st |-> "rejected", value |-> 0,
                               error |-> QueryError(reply, Len(log) + 1)])
    /\ UNCHANGED <<active, pool, svc, rq, transactionLevel, count, outcome, ops, nextSp, signalled, delay, redisVars>>

\* ------------------------------------------------------ the unit of work
\* The callback cb(rollback) of the innermost call is running and is not
\* waiting for a nested call.
Running == frames # <<>> /\ Top.pc = "run"
Deciding == Running /\ Top.child.st = "rejected"
Working == Running /\ Top.child.st # "rejected"

\* client.query(sql) inside the unit of work; a failed query rejects the
\* unit of work's promise
uowQuery(reply) ==
    /\ Working
    /\ ops < MaxOps
    /\ reply \in Replies(db, "WRITE", Len(log) + 1)
    /\ ops' = ops + 1
    /\ log' = Append(log, ScopedEntry("WRITE", Len(log) + 1, Scope, reply))
    /\ db' = Exec(db, "WRITE", Len(log) + 1, count.begin, Scope, reply)
    /\ frames' = IF reply = "ok"
                 THEN frames
                 ELSE SetTop([Top EXCEPT !.pc = "catch",
                                         !.error = QueryError(reply, Len(log) + 1)])
    /\ UNCHANGED <<active, pool, svc, rq, transactionLevel, count, outcome, nextSp, signalled, delay, redisVars>>

\* client.transaction(...) inside the unit of work: lines 151-154
uowTransaction ==
    /\ Working
    /\ ops < MaxOps
    /\ Depth < MaxDepth
    /\ ops' = ops + 1
    /\ transactionLevel' = transactionLevel + 1
    /\ nextSp' = nextSp + 1
    /\ frames' = Append(SetTop([Top EXCEPT !.child = NoChild]),
                        NewFrame("nested", "savepoint", nextSp, "serializable", NoError))
    /\ UNCHANGED <<active, pool, svc, rq, log, count, outcome, db, signalled, delay, redisVars>>

\* the unit of work's promise resolves, to its own value or to the value of
\* the nested call it awaited
uowReturn(own) ==
    /\ Working
    /\ own \/ Top.child.st = "resolved"
    /\ frames' = SetTop([Top EXCEPT
                            !.pc = "cbResolved",
                            !.result = IF own THEN OwnResult(count.begin, Depth)
                                       ELSE Top.child.value])
    /\ UNCHANGED <<active, pool, svc, rq, transactionLevel, log, count, outcome, db, ops, nextSp, signalled, delay, redisVars>>

\* the unit of work returns something that is not a promise: 158-164, 197-203;
\* a value that passed the test would be handed on as the result
uowReturnNonPromise(result) ==
    /\ Working
    /\ frames' = IF isPromiseLike(result)
                 THEN SetTop([Top EXCEPT !.pc = "cbResolved", !.result = NonPromiseValue])
                 ELSE SetTop([Top EXCEPT !.pc = "catch",
                                         !.error = ContractError(Len(log))])
    /\ UNCHANGED <<active, pool, svc, rq, transactionLevel, log, count, outcome, db, ops, nextSp, signalled, delay, redisVars>>

\* the unit of work calls the rollback capability of the call at depth k
\* (its own or an enclosing one, which its closure can reach): lines 139-149
uowRollback(k, v) ==
    /\ Working
    /\ k \in 1..Depth
    /\ frames' = SetTop([Top EXCEPT !.pc = "catch",
                            !.error = rollback(frames[k].savepoint,
                                               frames[k].savepoint, v, Len(log))])
    /\ UNCHANGED <<active, pool, svc, rq, transactionLevel, log, count, outcome, db, ops, nextSp, signalled, delay, redisVars>>

\* the unit of work throws an error of its own
uowThrow ==
    /\ Working
    /\ frames' = SetTop([Top EXCEPT !.pc = "catch", !.error = AppError(Depth, Len(log))])
    /\ UNCHANGED <<active, pool, svc, rq, transactionLevel, log, count, outcome, db, ops, nextSp, signalled, delay, redisVars>>

\* the nested call rejected and the unit of work lets the rejection through
uowPropagate ==
    /\ Deciding
    /\ frames' = SetTop([Top EXCEPT !.pc = "catch", !.error = Top.child.error])
    /\ UNCHANGED <<active, pool, svc, rq, transactionLevel, log, count, outcome, db, ops, nextSp, signalled, delay, redisVars>>

\* the nested call rejected and the caller's code catches the rejection
uowCatch ==
    /\ Deciding
    /\ frames' = SetTop([Top EXCEPT !.child = NoChild])
    /\ UNCHANGED <<active, pool, svc, rq, transactionLevel, log, count, outcome, db, ops, nextSp, signalled, delay, redisVars>>

\* the unit of work's promise rejects with a value that is not an Error
uowRejectNonError ==
    /\ Working
    /\ frames' = SetTop([Top EXCEPT !.pc = "catch", !.error = NonError(Len(log))])
    /\ UNCHANGED <<active, pool, svc, rq, transactionLevel, log, count, outcome, db, ops, nextSp, signalled, delay, redisVars>>

\* ------------------------------------------- a second caller on the client
\* Code that holds the same PostgresClient calls transaction() while the root
\* call waits in its retry delay.  The root call has not settled, so
\* _transactionLevel is 1, "++this._transactionLevel != 1" holds and the call
\* takes the nested branch (lines 151-154): it is one more in-flight call on
\* the client and proceeds as savepoint, nestedResolve, nestedReject and
\* rollbackTo describe.  (How it ends is recorded in the root frame's child
\* field, which tryAgain does not read and retry resets.)
concurrentTransaction ==
    /\ frames # <<>> /\ Top.kind = "root" /\ Top.pc = "delay"
    /\ ops < MaxOps
    /\ ops' = ops + 1
    /\ transactionLevel' = transactionLevel + 1
    /\ nextSp' = nextSp + 1
    /\ frames' = Append(frames,
                        NewFrame("nested", "savepoint", nextSp, "serializable", NoError))
    /\ UNCHANGED <<active, pool, svc, rq, log, count, outcome, db, signalled, delay, redisVars>>

\* -------------------------------------------------------------------- Next
Next ==
    \/ \E args \in {"cb", "options", "name"} : transaction(args)
    \/ \E reply \in {"ok", SerializationFailure, OtherFailure} : tryAgain(reply)
    \/ \E reply \in {"ok", SerializationFailure, OtherFailure} : commit(reply)
    \/ \E reply \in {"ok", OtherFailure} : \E name \in Names :
          catchError(reply, name)
    \/ retry
    \/ settle
    \/ \E reply \in {"ok", OtherFailure, InFailedTransaction, NoActiveTransaction} :
          savepoint(reply)
    \/ nestedResolve
    \/ nestedReject
    \/ \E reply \in {"ok", OtherFailure, NoActiveTransaction} : rollbackTo(reply)
    \/ \E reply \in {"ok", SerializationFailure, OtherFailure, InFailedTransaction} :
          uowQuery(reply)
    \/ uowTransaction
    \/ \E own \in BOOLEAN : uowReturn(own)
    \/ \E result \in NonPromises : uowReturnNonPromise(result)
    \/ \E k \in 1..MaxDepth : \E v \in RollbackValues : uowRollback(k, v)
    \/ uowThrow
    \/ uowPropagate
    \/ uowCatch
    \/ \E args \in {"cb", "options", "name"} : \E watch \in SUBSET WatchKeys :
          rTransaction(args, watch)
    \/ rTryAgain
    \/ \E known \in BOOLEAN : rUowAdd(known)
    \/ rUowClear
    \/ rUowWatch
    \/ rUowTransaction
    \/ \E propagate \in BOOLEAN : rUowDecide(propagate)
    \/ \E how \in {"return", "throw"} \cup NonPromises : rUowEnd(how)
    \/ otherWriter
    \/ \E reply \in {"replies", "null", "error"} : \E name \in Names :
          rExec(reply, name)
    \/ rCatch
    \/ rRetry
    \/ rSettle
    \/ \E reuseClient \in BOOLEAN : repositorySettled(reuseClient)

Spec == Init /\ [][Next]_vars

\* the transactions with a second caller on the Postgres client
ConcurrentNext ==
    \/ Next
    \/ concurrentTransaction

ConcurrentSpec == Init /\ [][ConcurrentNext]_vars

\* the transactions with units of work that may reject with any value; every
\* step that can be taken is taken: the backend answers each statement, each
\* unit of work's promise settles, pending callbacks and timers run
FairNext ==
    \/ Next
    \/ uowRejectNonError

FairSpec == Init /\ [][FairNext]_vars /\ WF_vars(FairNext)

\* the services alone: connect() calls, no transaction
ConnectNext ==
    \/ \E name \in ServerNames : pgConnect(name)
    \/ \E i \in 1..MaxConnects : \E error \in BOOLEAN : pgConnected(i, error)
    \/ \E name \in ServerNames : \E throws \in BOOLEAN : redisConnect(name, throws)
    \/ \E command \in Commands : \E reply \in {"ok", "error"} :
          redisQuery(command, reply)

ConnectSpec == Init /\ [][ConnectNext]_vars

\* a RedisQueue alone: add() and clear() in any order
QueueNext ==
    \/ \E command \in Commands : queueAdd(command)
    \/ queueClear

QueueSpec == Init /\ [][QueueNext]_vars

\* ================================================================= claims
HasStmt(stmt) == \E i \in 1..Len(log) : log[i].stmt = stmt
LastEntry == log[Len(log)]
\* the step appended exactly one statement to the log
Issued(stmt) ==
    /\ Len(log') = Len(log) + 1
    /\ SubSeq(log', 1, Len(log)) = log
    /\ log'[Len(log')].stmt = stmt

\* the root call is handling a rollback signal of its own class
RootSignal ==
    /\ frames # <<>> /\ Depth = 1 /\ Top.kind = "root"
    /\ IsRollbackError(Top.error, NullSp)

\* C1: at root level, when the unit of work raises the root rollback signal
\* with payload v, the transaction() promise resolves to exactly v, ROLLBACK
\* TRANSACTION is issued for that attempt, COMMIT is never issued for it and
\* no retry is started.
C1_Step ==
    /\ (RootSignal /\ Top.pc = "catch") =>
          /\ ~HasStmt("COMMIT")
          /\ Issued("ROLLBACK")
          /\ Len(frames') = 1
          /\ frames'[1].pc = "resolve"
          /\ frames'[1].result = Top.error.result
          /\ count'.begin = count.begin /\ count'.commit = count.commit
          /\ count'.warn = count.warn
    /\ (RootSignal /\ Top.pc = "resolve") =>
          /\ outcome'.st = "resolved"
          /\ outcome'.value = Top.error.result
          /\ frames' = <<>>
          /\ log' = log /\ count' = count
C1_RootRollbackResolves == [][C1_Step]_vars

C1_Witness ==
    /\ active = "postgres"
    /\ outcome.st = "resolved" /\ outcome.value \in RollbackValues
    /\ log # <<>> /\ LastEntry.stmt = "ROLLBACK"
    /\ ~HasStmt("COMMIT")
    /\ count.begin = 1

\* C2: a root transaction whose attempts all fail with conflict code 40001
\* is retried exactly maxTransactionRetries times (maxTransactionRetries + 1
\* attempts, each starting with BEGIN) and then rejects with the
\* retry-exhausted error; it never makes more attempts than that.
C2_RetryBudget ==
    active = "postgres" =>
        /\ count.begin <= maxTransactionRetries + 1
        /\ count.warn <= maxTransactionRetries
        /\ \A i \in 1..Len(log) :
              log[i].stmt = "BEGIN" <=> i = (IF log[1].stmt = "DELAY" THEN 2 ELSE 1)
        /\ \A i \in 1..Len(frames) :
              LET f == frames[i] IN
              f.kind = "root" =>
                 /\ f.pc = "delay" =>
                       /\ SqlState(f.error) = SerializationFailure
                       /\ f.numTries <= maxTransactionRetries
                       /\ count.begin = f.numTries
                       /\ count.warn = f.numTries
                 /\ (f.pc = "reject" /\ f.error.type = "retries") =>
                       /\ f.error.code = SerializationFailure
                       /\ f.numTries = maxTransactionRetries + 1
                       /\ count.begin = maxTransactionRetries + 1
                       /\ count.warn = maxTransactionRetries
                 /\ f.pc = "reject" =>
                       ~(f.error.type = "query"
                         /\ f.error.code = SerializationFailure)
        /\ (outcome.st = "rejected" /\ outcome.error.type = "retries") =>
              /\ count.begin = maxTransactionRetries + 1
              /\ count.warn = maxTransactionRetries

C2_Witness ==
    /\ active = "postgres"
    /\ outcome.st = "rejected" /\ outcome.error.type = "retries"
    /\ count.begin = maxTransactionRetries + 1
    /\ count.commit = maxTransactionRetries + 1

\* C3: for both clients and every outcome of a transaction() call, the
\* nesting counter at the moment the returned promise settles equals its
\* value just before the call.
C3_Step ==
    \* a Postgres call (root or nested) is entered
    /\ Len(frames') > Len(frames) =>
          /\ frames'[Len(frames')].pre = transactionLevel
          /\ transactionLevel' = transactionLevel + 1
    \* a Postgres call (root or nested) settles
    /\ Len(frames') < Len(frames) => transactionLevel' = Top.pre
    \* the Redis call is entered, settles
    /\ (rtx.pc = "idle" /\ rtx'.pc # "idle") => rtx'.pre = transactionLevel
    /\ (rtx.pc # "settled" /\ rtx'.pc = "settled") => transactionLevel' = rtx.pre
    \* a nested Redis call is rejected at once
    /\ (rtx.child.st # "rejected" /\ rtx'.child.st = "rejected") =>
          transactionLevel' = transactionLevel
C3_CounterRestored == [][C3_Step]_vars

C3_Witness ==
    /\ frames # <<>> /\ Top.kind = "root" /\ Top.child.st = "rejected"
    /\ Top.child.error.type = "query"
    /\ log # <<>> /\ LastEntry.stmt = "ROLLBACK TO"
    /\ transactionLevel = 1

\* the statements a unit of work and its nested calls hand to the backend
CbStmts == {"WRITE", "SAVEPOINT", "ROLLBACK TO"}

\* C4: when the first root attempt fails at COMMIT with code 40001 and the
\* second attempt succeeds, the backend sees BEGIN, the unit of work's
\* statements, COMMIT (failing), ROLLBACK, a delay, BEGIN, the statements
\* again, COMMIT (succeeding); the callback ran once per attempt, the call
\* resolves to the second attempt's result and what the unit of work wrote is
\* committed exactly once.
C4_RetryScenario ==
    active = "postgres" =>
        /\ (frames # <<>> /\ frames[1].pc = "delay"
            /\ count.begin = 1 /\ count.commit = 1) =>
              /\ Len(log) >= 3
              /\ log[1] = Entry("BEGIN", NullSp, "ok")
              /\ \A i \in 2..(Len(log) - 2) : log[i].stmt \in CbStmts
              /\ log[Len(log) - 1] = Entry("COMMIT", NullSp, SerializationFailure)
              /\ log[Len(log)].stmt = "ROLLBACK"
              /\ count.cb = 1 /\ count.rollback = 1
              /\ db.committed = {}
        /\ (outcome.st = "resolved" /\ count.begin = 2 /\ count.commit = 2) =>
              /\ Len(log) >= 3
              /\ log[1] = Entry("DELAY", NullSp, "ok")
              /\ log[2] = Entry("BEGIN", NullSp, "ok")
              /\ \A i \in 3..(Len(log) - 1) : log[i].stmt \in CbStmts
              /\ log[Len(log)] = Entry("COMMIT", NullSp, "ok")
              /\ count.cb = 2 /\ count.rollback = 1 /\ count.warn = 1
              /\ outcome.value \in RollbackValues \/ outcome.value \div 100 = 2
              /\ \A w \in db.committed : w.attempt = 2
              /\ (Len(log) = 4 /\ log[3] = ScopedEntry("WRITE", 3, <<>>, "ok")) =>
                    /\ db.committed = {[id |-> 3, attempt |-> 2, scope |-> <<>>]}
                    /\ outcome.value = OwnResult(2, 1)

C4_Witness ==
    /\ active = "postgres"
    /\ outcome.st = "resolved" /\ outcome.value = OwnResult(2, 1)
    /\ count.begin = 2 /\ count.commit = 2 /\ count.rollback = 1
    /\ log = <<Entry("DELAY", NullSp, "ok"), Entry("BEGIN", NullSp, "ok"),
               ScopedEntry("WRITE", 3, <<>>, "ok"), Entry("COMMIT", NullSp, "ok")>>
    /\ Cardinality(db.committed) = 1

\* the nested call on top is handling the rollback signal of its own savepoint
OwnSignal ==
    /\ frames # <<>> /\ Top.kind = "nested"
    /\ IsRollbackError(Top.error, Top.savepoint)
    /\ Top.error.savepoint = Top.savepoint

Resolved(v) == [st |-> "resolved", value |-> v, error |-> NoError]
Rejected(e) == [st |-> "rejected", value |-> 0, error |-> e]

\* C5: a call at depth 2 whose unit of work raises its own rollback signal
\* with payload x, the backend answering ROLLBACK TO with success: the nested
\* call issues ROLLBACK TO its savepoint and resolves to x, the root is not
\* rolled back and goes on in an open transaction; when the root's callback
\* then returns its own value, COMMIT is issued and the root resolves to that
\* value, not to x.
C5_Step ==
    /\ (Depth = 2 /\ OwnSignal /\ Top.pc = "catch" /\ Top.started) =>
          /\ Len(frames') = 2
          /\ frames'[2].pc = "rollbackTo"
          /\ frames'[1] = frames[1]
          /\ log' = log /\ db' = db /\ count' = count
    /\ (Depth = 2 /\ OwnSignal /\ Top.pc = "rollbackTo") =>
          /\ Issued("ROLLBACK TO")
          /\ log'[Len(log')].arg = Top.savepoint
          /\ count' = count
          /\ Len(frames') = 1
          /\ log'[Len(log')].reply = "ok" =>
                /\ frames'[1].child = Resolved(Top.error.result)
                /\ frames'[1].pc = "run"
                /\ frames'[1].started
                /\ db'.open /\ ~db'.aborted
    /\ (Depth = 1 /\ Top.pc = "run" /\ Top.child.st = "resolved"
        /\ frames' # <<>> /\ frames'[1].pc = "cbResolved") =>
          frames'[1].result \in {OwnResult(count.begin, 1), Top.child.value}
    /\ (Depth = 1 /\ Top.pc = "cbResolved") =>
          /\ Issued("COMMIT")
          /\ log'[Len(log')].reply = "ok" =>
                frames'[1].pc = "resolve" /\ frames'[1].result = Top.result
    /\ (Depth = 1 /\ Top.pc = "resolve" /\ ~RootSignal) =>
          outcome' = Resolved(Top.result)
C5_NestedRollbackScenario == [][C5_Step]_vars

C5_Witness ==
    /\ active = "postgres"
    /\ outcome = Resolved(OwnResult(1, 1))
    /\ log = <<Entry("BEGIN", NullSp, "ok"), Entry("SAVEPOINT", 1, "ok"),
               Entry("ROLLBACK TO", 1, "ok"), Entry("COMMIT", NullSp, "ok")>>
    /\ signalled = {1}

\* no write issued inside a call that received its own rollback signal is
\* part of the committed state
SignalledWritesNotCommitted ==
    /\ \A w \in db.committed :
          w.attempt = count.begin =>
             \A i \in 1..Len(w.scope) : w.scope[i] \notin signalled
    /\ NullSp \in signalled =>
          \A w \in db.committed : w.attempt # count.begin

\* C6: at every nesting depth d >= 1, calling the rollback(value) capability
\* of the level-d call inside its unit of work makes that level's
\* transaction() resolve to value without rejecting, and no write issued
\* inside level d is part of the state that is finally committed.
C6_Step ==
    /\ (RootSignal /\ Top.pc = "catch") =>
          frames'[1].pc = "resolve" /\ frames'[1].result = Top.error.result
    /\ (RootSignal /\ Top.pc = "resolve") =>
          outcome' = Resolved(Top.error.result)
    /\ (OwnSignal /\ Top.pc = "catch") =>
          \/ frames'[Depth].pc = "rollbackTo"
          \/ frames'[Depth - 1].child = Resolved(Top.error.result)
    /\ (OwnSignal /\ Top.pc = "rollbackTo") =>
          frames'[Depth - 1].child = Resolved(Top.error.result)
C6_RollbackAtEveryDepth == []SignalledWritesNotCommitted /\ [][C6_Step]_vars

\* the writes of the current attempt that were answered with success and lie
\* outside every call that received its own rollback signal
KeptWrites ==
    { [id |-> log[i].arg, attempt |-> count.begin, scope |-> log[i].scope] :
        i \in { j \in 1..Len(log) :
                  /\ log[j].stmt = "WRITE" /\ log[j].reply = "ok"
                  /\ \A k \in 1..Len(log[j].scope) :
                        log[j].scope[k] \notin signalled } }

\* a statement failed and no later ROLLBACK TO brought the transaction back
AbortedAtEnd ==
    \E i \in 1..Len(log) :
        /\ log[i].stmt \in CbStmts /\ log[i].reply # "ok"
        /\ \A k \in (i + 1)..Len(log) :
              ~(log[k].stmt = "ROLLBACK TO" /\ log[k].reply = "ok")

\* C7: after a nested call was rolled back by its own signal, the writes the
\* enclosing levels made outside it, before or after, are kept and are
\* committed by the root's COMMIT; only the writes inside the rolled-back
\* call are undone.
C7_ParentWritesKept ==
    (active = "postgres" /\ outcome.st = "resolved" /\ log # <<>>
     /\ LastEntry = Entry("COMMIT", NullSp, "ok")) =>
        db.committed = IF AbortedAtEnd THEN {} ELSE KeptWrites

C7_Witness ==
    /\ active = "postgres"
    /\ outcome.st = "resolved"
    /\ signalled = {1}
    /\ log = <<Entry("BEGIN", NullSp, "ok"), Entry("SAVEPOINT", 1, "ok"),
               ScopedEntry("WRITE", 3, <<1>>, "ok"), Entry("ROLLBACK TO", 1, "ok"),
               ScopedEntry("WRITE", 5, <<>>, "ok"), Entry("COMMIT", NullSp, "ok")>>
    /\ db.committed = {[id |-> 5, attempt |-> 1, scope |-> <<>>]}

\* C8: a rollback signal never makes the transaction() call it targets
\* reject: whatever root and nested calls are made on the client and whatever
\* rollback capability a unit of work invokes, the call the signal targets
\* resolves to the payload, and the signal is never delivered as a rejection
\* to the caller of the outermost transaction().
C8_Step ==
    (frames # <<>> /\ Len(frames') < Len(frames) /\ (OwnSignal \/ RootSignal)) =>
        IF Depth = 1 THEN outcome' = Resolved(Top.error.result)
        ELSE frames'[Depth - 1].child = Resolved(Top.error.result)
C8_SignalNeverRejects ==
    [](outcome.st = "rejected" => outcome.error.type # "rollback")
    /\ [][C8_Step]_vars

\* C9: a nested call that fails with anything but its own rollback signal (an
\* ordinary error or an ancestor's signal) rejects with the same error, issues
\* no ROLLBACK TO for its savepoint and leaves the error to the enclosing
\* level, which classifies it by its own rules.
C9_Step ==
    /\ (frames # <<>> /\ Top.kind = "nested" /\ Top.pc = "catch" /\ ~OwnSignal) =>
          /\ Len(frames') = Depth - 1
          /\ frames'[Depth - 1].child = Rejected(Top.error)
          /\ frames'[Depth - 1].pc = "run"
          /\ log' = log /\ db' = db
          /\ signalled' = signalled
    /\ (frames # <<>> /\ Top.pc = "run" /\ Top.child.st = "rejected"
        /\ frames' # <<>> /\ frames'[Depth].pc = "catch") =>
          frames'[Depth].error = Top.child.error
    /\ (RootSignal /\ Top.pc = "catch") => frames'[1].pc = "resolve"
C9_ForeignErrorPassesThrough ==
    [](\A i \in 1..Len(log) :
          log[i].stmt = "ROLLBACK TO" => log[i].arg \in signalled)
    /\ [][C9_Step]_vars

C9_Witness ==
    /\ active = "postgres"
    /\ frames # <<>> /\ Depth = 1 /\ Top.pc = "resolve"
    /\ RootSignal
    /\ Top.child = Rejected(Top.error)
    /\ HasStmt("SAVEPOINT") /\ ~HasStmt("ROLLBACK TO")
    /\ LastEntry.stmt = "ROLLBACK"

\* C10: a failed root attempt is retried if and only if the error's code is
\* the conflict code 40001 (and retries are left); any other failure that is
\* not the root's rollback signal makes transaction() reject with that
\* original error, unchanged, and no further attempt is made.
C10_Step ==
    /\ (frames # <<>> /\ Top.kind = "root" /\ Top.pc = "catch") =>
          /\ frames'[1].pc = "delay" =>
                /\ ~RootSignal
                /\ SqlState(Top.error) = SerializationFailure
          /\ (~RootSignal /\ SqlState(Top.error) = SerializationFailure
              /\ Top.numTries < maxTransactionRetries) =>
                frames'[1].pc = "delay"
          /\ (~RootSignal /\ SqlState(Top.error) # SerializationFailure) =>
                /\ frames'[1].pc = "reject"
                /\ frames'[1].error = Top.error
                /\ count'.begin = count.begin /\ count'.warn = count.warn
    /\ (frames # <<>> /\ Top.kind = "root" /\ Top.pc = "reject") =>
          /\ outcome' = Rejected(Top.error)
          /\ frames' = <<>>
    /\ (frames # <<>> /\ frames' # <<>>
        /\ frames[1].pc # "begin" /\ frames'[1].pc = "begin") =>
          frames[1].pc = "delay"
    /\ (active = "postgres" /\ outcome.st \in {"resolved", "rejected"}) =>
          txVars' = txVars
C10_RetryOnlyOnConflict == [][C10_Step]_vars

C10_Witness ==
    /\ active = "postgres"
    /\ outcome.st = "rejected"
    /\ outcome.error = QueryError(OtherFailure, 2)
    /\ log = <<Entry("BEGIN", NullSp, "ok"), ScopedEntry("WRITE", 2, <<>>, OtherFailure),
               Entry("ROLLBACK", NullSp, "ok")>>
    /\ count.begin = 1

\* the root call is about to handle the failure of its current attempt
RootFailed == frames # <<>> /\ Top.kind = "root" /\ Top.pc = "catch"

\* C11 as the spec states it: every failure of a root attempt, in BEGIN, in
\* the unit of work or in COMMIT, causes ROLLBACK TRANSACTION to be issued
\* before the failure is classified.
C11_Original_Step == RootFailed => Issued("ROLLBACK")
C11_Original == [][C11_Original_Step]_vars

\* C11 (amended): every failure of a root attempt whose BEGIN succeeded (a
\* failure in the unit of work or in COMMIT) causes ROLLBACK TRANSACTION to be
\* issued before the failure is classified; a failure of BEGIN itself is
\* classified without any ROLLBACK.
C11_Step ==
    /\ (RootFailed /\ Top.started) =>
          /\ Issued("ROLLBACK")
          /\ frames'[1].pc \in {"resolve", "delay", "reject", "hung"}
    /\ (RootFailed /\ ~Top.started) =>
          /\ LastEntry.stmt = "BEGIN" /\ LastEntry.reply # "ok"
          /\ log' = log
          /\ frames'[1].pc \in {"delay", "reject"}
    \* a failure of the unit of work or of COMMIT is handed to the handler
    /\ (frames # <<>> /\ Depth = 1 /\ Top.pc \in {"run", "cbResolved"}
        /\ frames' # <<>> /\ Len(frames') = 1
        /\ frames'[1].pc \notin {"run", "cbResolved", "resolve"}) =>
          frames'[1].pc = "catch" /\ frames'[1].started
    \* nothing is classified without passing through the handler
    /\ (frames # <<>> /\ frames' # <<>> /\ frames[1].pc # frames'[1].pc
        /\ frames'[1].pc \in {"delay", "reject"}) =>
          RootFailed
C11_RollbackBeforeClassification == [][C11_Step]_vars

C11_Witness ==
    /\ active = "postgres"
    /\ outcome.st = "rejected"
    /\ outcome.error = QueryError(OtherFailure, 2)
    /\ log = <<Entry("BEGIN", NullSp, "ok"), Entry("COMMIT", NullSp, OtherFailure),
               Entry("ROLLBACK", NullSp, "ok")>>

\* C12: the isolation level is serializable whenever the caller gives none,
\* also when transaction() is called with options that carry only a name: the
\* root attempt then issues BEGIN TRANSACTION ISOLATION LEVEL SERIALIZABLE and
\* runs the unit of work (the call does not fail for want of an isolation).
C12_IsolationDefaults ==
    /\ \A i \in 1..Len(frames) :
          /\ frames[i].isolation = "serializable"
          /\ frames[i].error # IsolationTypeError
    /\ outcome.error # IsolationTypeError
    /\ (active = "postgres" /\ outcome.st \in {"resolved", "rejected"}) =>
          count.begin >= 1

\* C13: every retry of a root transaction is preceded by a delay d with
\* minTransactionDelay <= d <= maxTransactionDelay, and the retry re-executes
\* the whole attempt from a new BEGIN, invoking the unit of work again from
\* its start.
C13_Step ==
    \* the timer is armed with a delay in range when the retry is decided
    /\ (RootFailed /\ frames'[1].pc = "delay") =>
          /\ delay' >= minTransactionDelay /\ delay' <= maxTransactionDelay
    \* a new attempt starts only when that timer fires
    /\ (frames # <<>> /\ frames' # <<>>
        /\ frames[1].pc # "begin" /\ frames'[1].pc = "begin") =>
          /\ frames[1].pc = "delay"
          /\ delay >= minTransactionDelay /\ delay <= maxTransactionDelay
          /\ log' = <<Entry("DELAY", NullSp, "ok")>>
          /\ Len(frames') = 1
          /\ ~frames'[1].started /\ frames'[1].child = NoChild
          /\ frames'[1].error = NoError
          /\ ops' = 0 /\ signalled' = {}
          /\ count' = count
    \* the attempt begins with BEGIN and then invokes the unit of work anew
    /\ (frames # <<>> /\ Top.pc = "begin") =>
          /\ Issued("BEGIN")
          /\ count'.begin = count.begin + 1
          /\ log'[Len(log')].reply = "ok" =>
                /\ frames'[1].pc = "run"
                /\ count'.cb = count.cb + 1
    \* BEGIN is issued and the unit of work invoked in no other way
    /\ (frames # <<>> /\ Top.pc # "begin") =>
          count'.begin = count.begin /\ count'.cb = count.cb
C13_DelayedRetryFromBegin ==
    [](active = "postgres" => count.begin <= count.warn + 1)
    /\ [][C13_Step]_vars

C13_Witness ==
    /\ active = "postgres"
    /\ frames # <<>> /\ Top.pc = "run"
    /\ count.begin = 2 /\ count.cb = 2 /\ count.warn = 1
    /\ log = <<Entry("DELAY", NullSp, "ok"), Entry("BEGIN", NullSp, "ok")>>

\* the error the transaction() call rejected with says its retry budget is spent
RetriesExhausted == outcome.st = "rejected" /\ outcome.error.type = "retries"

HasPart(msg, part) == \E i \in 1..Len(msg) : msg[i] = part

\* C14: when the retry budget is exhausted the rejection is a retry-exhausted
\* error that wraps the last retryable conflict as its cause and includes the
\* transaction name (when one was given) and the number of attempts made.
C14_RetryExhaustedError ==
    RetriesExhausted =>
        /\ active = "postgres" =>
              /\ outcome.error.code = SerializationFailure
              /\ outcome.error.at > 0
        /\ outcome.error.name # "" => HasPart(outcome.error.msg, outcome.error.name)
        /\ HasPart(outcome.error.msg, ToString(count.begin))

\* C15: a call to the key-value transaction() on a client whose nesting
\* counter is already 1 rejects at once with the nesting error, without
\* invoking the unit of work and without issuing WATCH, EXEC or UNWATCH; the
\* counter stays 1 and the running transaction is unaffected.
C15_Step ==
    (active = "redis" /\ rtx.pc = "run" /\ rtx.child.st # "rejected"
     /\ rtx'.child.st = "rejected") =>
        /\ transactionLevel = 1 /\ transactionLevel' = 1
        /\ rtx'.child.error.type = "nested"
        /\ rtx' = [rtx EXCEPT !.child = rtx'.child]
        /\ log' = log /\ rdb' = rdb /\ count' = count
        /\ outcome' = outcome
C15_NestedCallRejected ==
    [](active = "redis" => transactionLevel \in {0, 1})
    /\ [][C15_Step]_vars

\* the running transaction completed after a nested call was rejected and
\* its rejection caught
C15_Witness ==
    /\ active = "redis"
    /\ outcome = Resolved(OwnResult(1, 1))
    /\ ops = 1 /\ log = <<>> /\ rtx.queue = <<>>
    /\ transactionLevel = 0

\* the key-value call declared a non-empty watch set and its current attempt
\* is past the WATCH commands
WatchedAttempt ==
    /\ active = "redis" /\ rtx.watch # {}
    /\ rtx.pc \notin {"idle", "watch"}

\* C16: when a non-empty watch set is declared, each attempt issues WATCH for
\* every key of the set, and the unit of work is invoked after all those WATCH
\* commands have succeeded, and only then.
C16_WatchBeforeCallback ==
    /\ WatchedAttempt =>
          /\ HasStmt("WATCH")
          /\ \A i \in 1..Len(log) :
                log[i].stmt = "WATCH" => \A j \in 1..(i - 1) : log[j].stmt = "DELAY"
    /\ (active = "redis" /\ rtx.watch # {} /\ rtx.pc = "run") =>
          HasStmt("WATCH")

\* C17: when the watch set is empty and the unit of work adds no command to
\* the queue, the key-value transaction issues no command at all (no WATCH, no
\* EXEC, no UNWATCH) and resolves with the callback's result and an empty
\* replies list.
C17_Step ==
    /\ (active = "redis" /\ rtx.pc = "watch" /\ rtx.watch = {}
        /\ rtx' # rtx) =>
          /\ log' = log /\ rdb' = rdb
          /\ rtx'.pc = "run"
    /\ (active = "redis" /\ rtx.pc = "cbResolved" /\ rtx.watch = {}
        /\ rtx.queue = <<>> /\ rtx' # rtx) =>
          /\ log' = log /\ rdb' = rdb
          /\ rtx'.pc = "resolve"
          /\ rtx'.replies = <<>>
          /\ rtx'.result = rtx.result
    /\ (active = "redis" /\ rtx.pc = "resolve" /\ rtx' # rtx) =>
          /\ outcome' = Resolved(rtx.result)
          /\ rtx'.replies = rtx.replies
          /\ log' = log /\ rdb' = rdb
C17_NothingToDoNothingSent ==
    [](  (active = "redis" /\ outcome.st = "resolved" /\ rtx.watch = {}
          /\ rtx.queue = <<>> /\ ops = 0)
       => (/\ ~HasStmt("WATCH") /\ ~HasStmt("EXEC") /\ ~HasStmt("UNWATCH")
           /\ rtx.replies = <<>>
           /\ outcome.value = OwnResult(rtx.numTries + 1, 1)))
    /\ [][C17_Step]_vars

C17_Witness ==
    /\ active = "redis"
    /\ outcome = Resolved(OwnResult(1, 1))
    /\ rtx.pc = "settled" /\ rtx.watch = {} /\ rtx.queue = <<>> /\ rtx.replies = <<>>
    /\ ops = 0 /\ log = <<>> /\ rdb = InitRdb
    /\ count.cb = 1

\* C18: if a watched key is modified by another writer between WATCH and EXEC
\* of an attempt, the EXEC result is null, none of the queued commands of that
\* attempt takes effect, the promise is not resolved with that attempt's
\* result, and a new attempt is made that re-issues WATCH and re-invokes the
\* unit of work.
C18_Step ==
    /\ (active = "redis" /\ rtx.pc = "cbResolved" /\ rdb.watching /\ rdb.dirty
        /\ Issued("EXEC")) =>
          /\ log'[Len(log')].reply = "null"
          /\ rdb'.applied = rdb.applied
          /\ outcome' = outcome
          /\ rtx'.pc \in {"delay", "reject"}
          /\ rtx'.pc = "reject" => rtx.numTries + 1 > maxTransactionRetries
    /\ (active = "redis" /\ rtx.pc = "watch" /\ rtx.numTries > 0
        /\ rtx' # rtx) =>
          /\ Issued("WATCH")
          /\ count'.cb = count.cb + 1
          /\ rtx'.pc = "run"
C18_ConflictRetriesWithWatch ==
    [](  (active = "redis" /\ outcome.st = "resolved" /\ rtx.replies # <<>>)
       => (/\ LastEntry.stmt = "EXEC" /\ LastEntry.reply = "replies"
           /\ outcome.value = OwnResult(rtx.numTries + 1, 1)))
    /\ [][C18_Step]_vars

\* C19: in every attempt in which WATCH was established, UNWATCH is issued
\* before that attempt is retried (null EXEC result) and before the
\* transaction rejects (callback failure, EXEC error, retry exhaustion).
C19_UnwatchBeforeRetryOrReject ==
    (active = "redis" /\ rtx.pc \in {"delay", "reject"} /\ HasStmt("WATCH")) =>
        \E i \in 1..Len(log) :
            /\ log[i].stmt = "UNWATCH"
            /\ \E j \in 1..(i - 1) : log[j].stmt = "WATCH"

\* C20: every connection checked out of the pool is returned to it exactly
\* once on every path: after a repository operation that acquired its own
\* relational client settles, the pool's release function has been invoked
\* exactly one time, and it is not invoked while the transaction on that
\* client is still running or retrying.
C20_ReleasedExactlyOnce ==
    /\ (active = "postgres" /\ pool.st = "settled" /\ ~pool.reuseClient) =>
          pool.released = 1
    /\ outcome.st \notin {"resolved", "rejected"} => pool.released = 0

\* the step settled one more connect() promise
Settled(r) == svc'.results = Append(svc.results, r)

\* C21: connect(name) with a server name that is not declared in the
\* configuration rejects with a configuration error, creates no pool entry for
\* that name, and checks out no connection; the pool map is unchanged.
C21_Step ==
    \A name \in ServerNames \ ConfiguredServers :
        \A r \in {svc'.results[i] : i \in 1..Len(svc'.results)} :
            (r.name = name /\ Settled(r)) =>
                /\ r.st = "rejected" /\ r.error = "undefinedServer"
                /\ svc'.pools = svc.pools
                /\ svc'.made = svc.made
                /\ svc'.checkedOut = svc.checkedOut
                /\ svc'.pending = svc.pending
C21_UndeclaredServerRejected ==
    [](\A name \in ServerNames \ ConfiguredServers :
          /\ svc.pools[name] = 0
          /\ \A i \in 1..Len(svc.pending) : svc.pending[i].name # name
          /\ \A i \in 1..Len(svc.results) :
                svc.results[i].name = name =>
                    /\ svc.results[i].st = "rejected"
                    /\ svc.results[i].error = "undefinedServer")
    /\ [][C21_Step]_vars

C21_Witness ==
    /\ active = "postgres"
    /\ Len(svc.results) = 2
    /\ svc.results[1] = ConnectResult("main", "resolved", "", 1)
    /\ svc.results[2] = ConnectResult("missing", "rejected", "undefinedServer", 0)
    /\ svc.pools = [n \in ServerNames |-> IF n = "main" THEN 1 ELSE 0]
    /\ svc.checkedOut = 1 /\ svc.made = 1

\* C22: relational pool: after any sequence of connect(name) calls, interleaved
\* ones included, there is at most one pool handle per declared server name;
\* the pool is created on the first connect for that name and every later
\* connect for the same name reuses it, also when an earlier checkout from it
\* failed.
C22_Step ==
    active = "postgres" =>
        \A name \in ServerNames :
            svc.pools[name] # 0 => svc'.pools[name] = svc.pools[name]
C22_OnePoolPerServer ==
    [](active = "postgres" =>
          /\ svc.made = Cardinality({n \in ServerNames : svc.pools[n] # 0})
          /\ \A n, m \in ServerNames :
                (n # m /\ svc.pools[n] # 0) => svc.pools[n] # svc.pools[m]
          /\ \A i \in 1..Len(svc.pending) :
                svc.pending[i].handle = svc.pools[svc.pending[i].name]
          /\ \A i \in 1..Len(svc.results) :
                svc.results[i].error # "undefinedServer" =>
                    svc.results[i].handle = svc.pools[svc.results[i].name])
    /\ [][C22_Step]_vars

C22_Witness ==
    /\ active = "postgres"
    /\ svc.results = <<ConnectResult("main", "rejected", "connectFailed", 1),
                       ConnectResult("main", "resolved", "", 1)>>
    /\ svc.pending = <<[name |-> "main", handle |-> 1]>>
    /\ svc.made = 1

\* C23: when the unit of work returns something that is not promise-like
\* (null, a non-object, an object without a then function), the transaction
\* fails with the callback-contract error and is not retried; at root level
\* of the relational store ROLLBACK TRANSACTION is issued and COMMIT is not,
\* and in the key-value store the queue is not executed.
C23_Step ==
    /\ (frames # <<>> /\ Top.kind = "root" /\ Top.pc = "catch"
        /\ Top.error.type = "contract") =>
          /\ Issued("ROLLBACK")
          /\ frames'[1].pc = "reject"
          /\ frames'[1].error = Top.error
          /\ count'.begin = count.begin
    /\ (frames # <<>> /\ Top.kind = "nested" /\ Top.pc = "catch"
        /\ Top.error.type = "contract") =>
          /\ log' = log
          /\ Len(frames') = Len(frames) - 1
          /\ frames'[Len(frames')].child = Rejected(Top.error)
    /\ (active = "redis" /\ rtx.pc = "catch" /\ rtx.error.type = "contract"
        /\ rtx' # rtx) =>
          /\ rtx'.pc = "reject" /\ rtx'.error = rtx.error
          /\ ~Issued("EXEC")
          /\ rdb'.applied = rdb.applied
          /\ count'.begin = count.begin
C23_NonPromiseIsFatal ==
    [](/\ \A i \in 1..Len(frames) :
             frames[i].pc = "cbResolved" => frames[i].result # NonPromiseValue
       /\ rtx.pc = "cbResolved" => rtx.result # NonPromiseValue
       /\ (outcome.st = "rejected" /\ outcome.error.type = "contract") =>
             IF active = "postgres"
             THEN /\ LastEntry.stmt = "ROLLBACK"
                  /\ ~HasStmt("COMMIT")
             ELSE /\ ~HasStmt("EXEC")
                  /\ rtx.replies = <<>>)
    /\ [][C23_Step]_vars

C23_Witness ==
    /\ active = "postgres"
    /\ outcome = Rejected(ContractError(2))
    /\ log = <<Entry("BEGIN", NullSp, "ok"), ScopedEntry("WRITE", 2, <<>>, "ok"),
               Entry("ROLLBACK", NullSp, "ok")>>
    /\ count.begin = 1 /\ count.cb = 1 /\ count.commit = 0

\* the commands pending after the operations of history: those of the known
\* add() calls made since the last clear()
RECURSIVE Pending(_)
Pending(history) ==
    IF history = <<>> THEN <<>>
    ELSE LET op == history[Len(history)]
             before == Pending(SubSeq(history, 1, Len(history) - 1)) IN
         IF op = "clear" THEN <<>>
         ELSE IF op \in MultiCommands THEN Append(before, op)
         ELSE before

\* C24: operation queue: a new queue is empty; add(command, params) with a
\* known command appends the command to the pending batch and sets the queue
\* non-empty; clear() discards all pending commands and sets it empty again;
\* add with an unknown command throws and leaves both the pending batch and
\* the empty flag unchanged.
C24_QueueContract ==
    /\ rq.queue.multi = Pending(rq.history)
    /\ rq.queue.empty <=> Pending(rq.history) = <<>>
    /\ rq.history # <<>> =>
          (rq.queue.thrown <=> rq.history[Len(rq.history)] \notin
                                  MultiCommands \cup {"clear"})
    /\ rq.history = <<>> => (rq.queue.empty /\ rq.queue.multi = <<>>)

C24_Witness ==
    /\ rq.history = <<"SET", "clear", "DEL", "NOSUCH">>
    /\ rq.queue = [multi |-> <<"DEL">>, empty |-> FALSE, thrown |-> TRUE]

\* the commands the EXEC of the current attempt executed, in queue order (each
\* stands for its reply)
ExecutedNow ==
    SelectSeq(rtx.queue, LAMBDA c : c.attempt = count.begin /\ c \in rdb.applied)

\* C25: key-value store: a successful transaction() resolves to a pair whose
\* first item is the value the unit of work's promise resolved to and whose
\* second item is the list of EXEC replies of the attempt that succeeded (the
\* empty list when the queue was empty).
C25_ResolvesToResultAndReplies ==
    (active = "redis" /\ outcome.st = "resolved") =>
        /\ outcome.value = OwnResult(count.begin, 1)
        /\ rtx.replies = rtx.queue
        /\ rtx.replies = ExecutedNow
        /\ rtx.queue = <<>> => (rtx.replies = <<>> /\ ~HasStmt("EXEC"))
        /\ rtx.queue # <<>> => (LastEntry.stmt = "EXEC" /\ LastEntry.reply = "replies")

C25_Witness ==
    /\ active = "redis"
    /\ outcome = Resolved(OwnResult(2, 1))
    /\ rtx.numTries = 1
    /\ rtx.replies = <<[attempt |-> 2, n |-> 1], [attempt |-> 2, n |-> 2]>>
    /\ LastEntry.stmt = "EXEC"

\* C26: key-value client query(command, params): when the command names a
\* command of the native client, that native command is invoked with the
\* parameters and the promise resolves to its reply (or rejects with a wrapped
\* error when the backend reports one); when the command is unknown, the
\* promise rejects and nothing is sent.
C26_QueryReachesNativeClient ==
    /\ \A i \in 1..Len(svc.queries) :
          IF svc.queries[i].command \in MultiCommands
          THEN svc.queries[i].settled \in {"resolved", "Command failed"}
          ELSE svc.queries[i].settled \notin {"resolved", "Command failed"}
    /\ svc.sent = SelectSeq([i \in 1..Len(svc.queries) |-> svc.queries[i].command],
                            LAMBDA c : c \in MultiCommands)

\* C27: key-value store: transaction() called with an options object that
\* carries only a name (no watch set) behaves like a transaction with an empty
\* watch set: the unit of work is invoked, no WATCH is issued, and the call
\* does not fail because of the missing watch option.  Stated over every call
\* without watched keys (callback only, watch: [], or name only): once the
\* call is past its argument handling, the unit of work has been invoked
\* without a WATCH before it, and the call carries no TypeError.
C27_NameOnlyOptionsRun ==
    (active = "redis" /\ rtx.watch = {} /\ rtx.pc \notin {"idle", "watch"}) =>
        /\ count.cb >= 1
        /\ rtx.error.type # "type"
        /\ rtx.pc = "run" /\ ops = 0 => ~HasStmt("WATCH")

\* C28: relational store: retrying happens only at root level.  A conflict
\* (code 40001) raised inside a nested transaction is not retried by the
\* nested level; it rejects the nested call, and when the enclosing units of
\* work let it propagate, the root issues ROLLBACK and re-runs the whole tree
\* from BEGIN, re-invoking the root unit of work.
C28_Step ==
    /\ (frames # <<>> /\ Top.kind = "nested" /\ Top.pc = "catch"
        /\ SqlState(Top.error) = SerializationFailure) =>
          /\ log' = log
          /\ count' = count
          /\ Len(frames') = Len(frames) - 1
          /\ frames'[Len(frames')].child = Rejected(Top.error)
    /\ (active = "postgres" /\ count'.begin # count.begin) =>
          /\ Len(frames) = 1 /\ Len(frames') = 1
          /\ frames[1].kind = "root" /\ frames[1].pc = "begin"
    /\ (frames # <<>> /\ Top.kind = "root" /\ Top.pc = "catch" /\ Top.started
        /\ SqlState(Top.error) = SerializationFailure
        /\ Top.numTries < maxTransactionRetries) =>
          /\ Issued("ROLLBACK")
          /\ frames'[1].pc = "delay"
    /\ (frames # <<>> /\ frames[1].pc = "delay") =>
          /\ frames' # <<>> /\ Len(frames') = 1 /\ frames'[1].pc = "begin"
          /\ log' = <<Entry("DELAY", NullSp, "ok")>>
    /\ (frames # <<>> /\ frames[1].pc = "begin" /\ frames[1].numTries > 0) =>
          /\ Issued("BEGIN")
          /\ log'[Len(log')].reply = "ok" =>
                (frames'[1].pc = "run" /\ count'.cb = count.cb + 1)
C28_RetryOnlyAtRoot ==
    [](\A i \in 2..Len(frames) :
          frames[i].kind = "nested" /\ frames[i].pc \notin {"delay", "begin"}
          /\ frames[i].numTries = 0)
    /\ [][C28_Step]_vars

C28_Witness ==
    /\ active = "postgres"
    /\ Len(frames) = 1 /\ frames[1].pc = "delay" /\ frames[1].numTries = 1
    /\ Len(log) = 4
    /\ log[1] = Entry("BEGIN", NullSp, "ok")
    /\ log[2].stmt = "SAVEPOINT" /\ log[2].reply = "ok"
    /\ log[3].stmt = "WRITE" /\ log[3].reply = SerializationFailure
    /\ log[3].scope # <<>>
    /\ log[4] = Entry("ROLLBACK", NullSp, "ok")
    /\ count.begin = 1

\* C29: relational store: ROLLBACK TO <s> is issued only for a savepoint s
\* whose SAVEPOINT <s> statement was issued and succeeded earlier in the same
\* nested transaction() call; when SAVEPOINT fails, the unit of work is not
\* invoked and the nested call rejects with the query error.
C29_Step ==
    /\ (frames # <<>> /\ Top.kind = "nested" /\ Top.pc = "savepoint") =>
          /\ Issued("SAVEPOINT")
          /\ log'[Len(log')].arg = Top.savepoint
          /\ Len(frames') = Len(frames)
          /\ IF log'[Len(log')].reply = "ok"
             THEN frames'[Len(frames')].pc = "run" /\ frames'[Len(frames')].started
             ELSE /\ frames'[Len(frames')].pc = "catch"
                  /\ ~frames'[Len(frames')].started
                  /\ frames'[Len(frames')].error =
                         QueryError(log'[Len(log')].reply, Len(log'))
    /\ (frames # <<>> /\ Top.kind = "nested" /\ Top.pc = "catch" /\ ~Top.started) =>
          /\ log' = log
          /\ Top.error.type = "query"
          /\ Len(frames') = Len(frames) - 1
          /\ frames'[Len(frames')].child = Rejected(Top.error)
    /\ Issued("ROLLBACK TO") =>
          /\ Top.kind = "nested" /\ Top.started
          /\ log'[Len(log')].arg = Top.savepoint
C29_RollbackToOnlyCreatedSavepoint ==
    [](\A i \in 1..Len(log) :
          log[i].stmt = "ROLLBACK TO" =>
              \E j \in 1..(i - 1) :
                  /\ log[j].stmt = "SAVEPOINT"
                  /\ log[j].arg = log[i].arg
                  /\ log[j].reply = "ok")
    /\ [][C29_Step]_vars

C29_Witness ==
    /\ active = "postgres"
    /\ Len(log) = 4
    /\ log[2] = Entry("SAVEPOINT", 1, "ok")
    /\ log[3] = Entry("SAVEPOINT", 2, OtherFailure)
    /\ log[4] = Entry("ROLLBACK TO", 1, "ok")
    /\ Len(frames) = 1 /\ Top.child.st = "resolved"

\* the writes made inside some nested call during the current attempt and
\* answered with success
NestedWritesNow ==
    { [id |-> log[i].arg, attempt |-> count.begin, scope |-> log[i].scope] :
        i \in { j \in 1..Len(log) :
                  /\ log[j].stmt = "WRITE" /\ log[j].reply = "ok"
                  /\ log[j].scope # <<>> } }

\* C30: relational store: a nested transaction whose unit of work succeeds
\* issues exactly one statement of its own, SAVEPOINT <name> (no RELEASE, no
\* COMMIT), and resolves to the unit of work's value; its writes become
\* committed only if the root later commits and are discarded if the root
\* rolls back or retries.
C30_Step ==
    /\ (frames # <<>> /\ Top.kind = "nested" /\ Top.pc = "savepoint") =>
          Issued("SAVEPOINT")
    /\ (frames # <<>> /\ Top.kind = "nested" /\ Top.pc = "cbResolved") =>
          /\ log' = log /\ db' = db
          /\ Len(frames') = Len(frames) - 1
          /\ frames'[Len(frames')].child = Resolved(Top.result)
          /\ transactionLevel' = transactionLevel - 1
    /\ (frames # <<>> /\ Top.kind = "nested" /\ log' # log) =>
          (Issued("SAVEPOINT") \/ Issued("ROLLBACK TO") \/ Issued("WRITE"))
    /\ (active = "postgres" /\ db'.committed # db.committed) =>
          /\ Issued("COMMIT") /\ log'[Len(log')].reply = "ok"
          /\ Len(frames) = 1 /\ Top.kind = "root"
    /\ (frames # <<>> /\ Top.kind = "root" /\ Issued("ROLLBACK")) =>
          /\ db'.committed = db.committed
          /\ db'.pending = <<>>
C30_NestedSuccessOnlySavepoint ==
    [](active = "postgres" =>
          /\ \A i \in 1..Len(log) :
                log[i].stmt \in {"DELAY", "BEGIN", "SAVEPOINT", "WRITE",
                                 "ROLLBACK TO", "ROLLBACK", "COMMIT"}
          /\ \A i, j \in 1..Len(log) :
                (log[i].stmt = "SAVEPOINT" /\ log[j].stmt = "SAVEPOINT"
                 /\ log[i].arg = log[j].arg) => i = j
          /\ \A w \in db.committed :
                /\ w.attempt = count.begin
                /\ LastEntry = Entry("COMMIT", NullSp, "ok")
          /\ (frames # <<>> /\ frames[1].pc \in {"delay", "reject"}) =>
                db.committed = {})
    /\ [][C30_Step]_vars

C30_Witness ==
    /\ active = "postgres"
    /\ outcome = Resolved(OwnResult(1, 2))
    /\ log = <<Entry("BEGIN", NullSp, "ok"), Entry("SAVEPOINT", 1, "ok"),
               ScopedEntry("WRITE", 3, <<1>>, "ok"), Entry("COMMIT", NullSp, "ok")>>
    /\ db.committed = NestedWritesNow
    /\ db.committed # {}

\* C31: a Redis transaction whose EXEC answers null on every attempt invokes
\* the unit of work exactly maxTransactionRetries + 1 times and then rejects
\* with the maximum-retries error; a null EXEC is never answered in another
\* way than by a delayed retry or by that error.
C31_RedisRetryBudget ==
    active = "redis" =>
        /\ count.cb <= maxTransactionRetries + 1
        /\ count.commit <= maxTransactionRetries + 1
        /\ rtx.pc = "delay" =>
              /\ LastEntry = Entry("EXEC", NullSp, "null")
              /\ rtx.numTries <= maxTransactionRetries
              /\ count.cb = rtx.numTries
              /\ count.commit = rtx.numTries
        /\ (log # <<>> /\ LastEntry = Entry("EXEC", NullSp, "null")) =>
              \/ rtx.pc = "delay"
              \/ /\ rtx.pc \in {"reject", "settled"}
                 /\ rtx.error.type = "retries"
        /\ rtx.error.type = "retries" =>
              /\ rtx.pc \in {"reject", "settled"}
              /\ LastEntry = Entry("EXEC", NullSp, "null")
              /\ rtx.numTries = maxTransactionRetries + 1
              /\ count.cb = maxTransactionRetries + 1
              /\ count.commit = maxTransactionRetries + 1
        /\ (outcome.st = "rejected" /\ outcome.error.type = "retries") =>
              /\ count.cb = maxTransactionRetries + 1
              /\ count.commit = maxTransactionRetries + 1
              /\ rtx.numTries = maxTransactionRetries + 1

C31_Witness ==
    /\ active = "redis"
    /\ outcome.st = "rejected" /\ outcome.error.type = "retries"
    /\ count.cb = maxTransactionRetries + 1
    /\ count.commit = maxTransactionRetries + 1
    /\ LastEntry = Entry("EXEC", NullSp, "null")

\* the warnings logged so far are as many as the retries scheduled, and once
\* the call has settled as many as the attempts made after the first
WarnPerRetry ==
    /\ count.warn <= maxTransactionRetries
    /\ (frames # <<>> /\ frames[1].pc = "delay") => count.warn = count.begin
    /\ rtx.pc = "delay" => count.warn = count.begin
    /\ (outcome.st \in {"resolved", "rejected"} /\ count.begin > 0) =>
          count.warn = count.begin - 1

\* C32: one warning is logged per retry performed: a root transaction that
\* ends after k failed-and-retried attempts has called the logger's warn
\* exactly k times, and the attempt that exhausts the budget logs no warning
\* but is reported as an error that carries the retry count.
C32_WarnPerRetryErrorWithCount ==
    /\ WarnPerRetry
    /\ RetriesExhausted =>
          /\ count.warn = maxTransactionRetries
          /\ HasPart(outcome.error.msg, ToString(count.warn))

\* C33: a Redis EXEC that reports a backend error is fatal: the transaction
\* rejects with the wrapped 'Queue EXEC failed' error, nothing more is sent
\* and no further attempt is made, and the nesting counter is back at 0 when
\* the promise has settled.
C33_ExecErrorIsFatal ==
    active = "redis" =>
        /\ (log # <<>> /\ LastEntry = Entry("EXEC", NullSp, "error")) =>
              /\ rtx.pc \in {"catch", "reject", "settled"}
              /\ rtx.error = RedisError("exec", Len(log))
              /\ rdb.applied = {}
        /\ rtx.error.type = "exec" =>
              /\ LastEntry = Entry("EXEC", NullSp, "error")
              /\ rtx.pc \in {"catch", "reject", "settled"}
              /\ rtx.pc \in {"catch", "reject"} =>
                    outcome.st = "pending" /\ transactionLevel = 1
              /\ rtx.pc = "settled" =>
                    /\ outcome = Rejected(rtx.error)
                    /\ transactionLevel = 0
        /\ (outcome.st = "rejected" /\ outcome.error.type = "exec") =>
              /\ transactionLevel = 0
              /\ LastEntry = Entry("EXEC", NullSp, "error")

C33_Witness ==
    /\ active = "redis"
    /\ outcome.st = "rejected" /\ outcome.error.type = "exec"
    /\ LastEntry = Entry("EXEC", NullSp, "error")
    /\ transactionLevel = 0
    /\ count.begin = 1

\* the current attempt's BEGIN succeeded and neither COMMIT nor ROLLBACK has
\* been issued since
RootOpenInLog ==
    /\ \E i \in 1..Len(log) : log[i] = Entry("BEGIN", NullSp, "ok")
    /\ ~HasStmt("COMMIT")
    /\ ~HasStmt("ROLLBACK")

\* C34: for any interleaving of transaction() calls on one Postgres client, a
\* SAVEPOINT statement is issued only while the client's root transaction is
\* open on the backend, that is after a successful BEGIN and before the COMMIT
\* or ROLLBACK of the same attempt; a call made during the root's retry delay
\* issues no SAVEPOINT outside a transaction.
C34_Step ==
    (active = "postgres" /\ Issued("SAVEPOINT")) => (db.open /\ RootOpenInLog)
C34_SavepointOnlyInsideRoot == [][C34_Step]_vars

\* the transaction() calls entered on the active client whose promise has not
\* settled
Unsettled ==
    IF active = "postgres" THEN Len(frames)
    ELSE IF rtx.pc \in {"idle", "settled"} THEN 0 ELSE 1

\* the nested calls whose rejection handler has run and whose ROLLBACK TO has
\* not been answered
RollingBack ==
    Cardinality({i \in 1..Len(frames) : frames[i].pc = "rollbackTo"})

\* C35 as stated: in every reachable state the nesting counter of a client is
\* >= 0 and equals the number of transaction() calls on that client that
\* have been entered and whose promise has not settled.
C35_Original ==
    /\ transactionLevel >= 0
    /\ transactionLevel = Unsettled

\* C35: in every reachable state the nesting counter of a client is >= 0, is
\* at least 1 while a root call is unsettled, and equals the number of
\* unsettled transaction() calls on that client less the nested Postgres
\* calls that are rolling back to their savepoint (their handler has
\* decremented the counter, their ROLLBACK TO is not answered yet); for the
\* Redis client it is 0 or 1.
C35_CounterCountsCalls ==
    /\ transactionLevel >= 0
    /\ Unsettled > 0 => transactionLevel >= 1
    /\ transactionLevel = Unsettled - RollingBack
    /\ active = "redis" => (transactionLevel \in {0, 1} /\ RollingBack = 0)

C35_Witness ==
    /\ active = "postgres"
    /\ Len(frames) = 3
    /\ Top.pc = "rollbackTo"
    /\ transactionLevel = 2
    /\ RollingBack = 1

IsSettled == outcome.st \in {"resolved", "rejected"}

\* once the promise has settled it stays as it is and no statement is issued
C36_Step == IsSettled => (outcome' = outcome /\ log' = log /\ count' = count)

\* C36: every root transaction() call eventually settles, and settles exactly
\* once, provided every backend statement is answered and every unit-of-work
\* promise settles: it does not hang with the nesting counter left at 1, and
\* after it has settled no BEGIN, COMMIT or ROLLBACK is issued for it.
C36_RootSettlesOnce ==
    /\ (outcome.st = "pending") ~> IsSettled
    /\ [][C36_Step]_vars

BeginSucceeded == \E i \in 1..Len(log) : log[i] = Entry("BEGIN", NullSp, "ok")
BeginFailed ==
    \E i \in 1..Len(log) : log[i].stmt = "BEGIN" /\ log[i].reply # "ok"

\* the attempt recorded in the log has left no transaction behind: after a
\* successful BEGIN its last statement is a successful COMMIT or a ROLLBACK
AttemptClosed ==
    BeginSucceeded =>
        \/ LastEntry = Entry("COMMIT", NullSp, "ok")
        \/ LastEntry.stmt = "ROLLBACK"

\* BEGIN is issued with no transaction open and with nothing issued before it
\* in the attempt
C37_Step ==
    (active = "postgres" /\ Issued("BEGIN")) =>
        /\ ~db.open
        /\ log = <<>> \/ log = <<Entry("DELAY", NullSp, "ok")>>

\* C37: statement protocol of one Postgres root call: BEGIN is never issued
\* while a previous attempt's transaction is open; every attempt whose BEGIN
\* succeeded is closed by a successful COMMIT or by an issued ROLLBACK
\* TRANSACTION before the next BEGIN is issued or the promise settles; an
\* attempt whose BEGIN failed issues no ROLLBACK.
C37_StatementProtocol ==
    /\ [](active = "postgres" =>
            /\ (IsSettled \/ (frames # <<>>
                               /\ frames[1].pc \in {"delay", "resolve",
                                                     "reject", "hung"})) =>
                  (AttemptClosed /\ ~db.open)
            /\ BeginFailed => ~HasStmt("ROLLBACK")
            /\ \A i \in 1..Len(log) : \A j \in 1..Len(log) :
                  (log[i].stmt \in {"COMMIT", "ROLLBACK"} /\ j > i) =>
                      (log[i].stmt = "COMMIT" /\ log[i].reply # "ok"
                       /\ log[j].stmt = "ROLLBACK" /\ j = Len(log)))
    /\ [][C37_Step]_vars

C37_Witness ==
    /\ active = "postgres"
    /\ frames # <<>> /\ frames[1].pc = "begin"
    /\ count.begin = 1 /\ count.rollback = 1 /\ count.commit = 1
    /\ log = <<Entry("DELAY", NullSp, "ok")>>
    /\ ~db.open

\* the step issues ROLLBACK TRANSACTION for the failed root attempt and the
\* backend answers it with an error
RollbackFails ==
    /\ RootFailed /\ Top.started
    /\ Issued("ROLLBACK")
    /\ log'[Len(log')].reply # "ok"

\* what the failed ROLLBACK leaves of the attempt is what the original
\* failure alone decides
C38_Step ==
    RollbackFails =>
        /\ Len(frames') = 1
        /\ RootSignal =>
              /\ frames'[1].pc = "resolve"
              /\ frames'[1].result = Top.error.result
        /\ (~RootSignal /\ SqlState(Top.error) = SerializationFailure) =>
              IF Top.numTries < maxTransactionRetries
              THEN frames'[1].pc = "delay" /\ frames'[1].numTries = Top.numTries + 1
              ELSE /\ frames'[1].pc = "reject"
                   /\ frames'[1].error.type = "retries"
                   /\ frames'[1].error.at = Top.error.at
        /\ (~RootSignal /\ SqlState(Top.error) # SerializationFailure) =>
              /\ frames'[1].pc = "reject"
              /\ frames'[1].error = Top.error

\* C38: the outcome of a failed Postgres root attempt is decided by the
\* original failure alone: when ROLLBACK TRANSACTION itself fails its error
\* is discarded and the attempt is resolved (rollback signal), retried (code
\* 40001) or rejected with the original error, as after a successful
\* ROLLBACK; the promise then settles accordingly.
C38_RollbackErrorDiscarded ==
    /\ [][C38_Step]_vars
    /\ [](IsSettled => outcome.error.at # Len(log) \/ ~HasStmt("ROLLBACK"))

\* the commands of a batch, as a set
Batch(queue) == {queue[i] : i \in 1..Len(queue)}

\* the batch holds commands of the current attempt only, in the order the
\* unit of work added them
OwnBatch ==
    /\ \A i \in 1..Len(rtx.queue) :
          /\ rtx.queue[i].attempt = count.begin
          /\ rtx.queue[i].n \in 1..ops
    /\ \A i \in 1..Len(rtx.queue) : \A j \in 1..Len(rtx.queue) :
          i < j => rtx.queue[i].n < rtx.queue[j].n
    /\ rtx.empty <=> rtx.queue = <<>>

C39_Step ==
    \* an attempt starts with a new, empty queue
    /\ (rtx.pc = "watch" /\ rtx'.pc # "watch") =>
          (rtx'.queue = <<>> /\ rtx'.empty)
    \* EXEC submits the batch of the attempt, and what is applied is that batch
    /\ (active = "redis" /\ Issued("EXEC")) =>
          /\ rtx.queue # <<>> /\ OwnBatch
          /\ log'[Len(log')].reply = "replies" =>
                rdb'.applied = rdb.applied \cup Batch(rtx.queue)
          /\ log'[Len(log')].reply # "replies" => rdb'.applied = rdb.applied

\* C39: every attempt of a Redis transaction starts with a new, empty queue:
\* commands queued by an earlier attempt that ended in a null EXEC result are
\* never submitted again, and the batch an attempt executes holds exactly the
\* commands its own invocation of the unit of work added to it.
C39_FreshQueuePerAttempt ==
    /\ [](active = "redis" =>
            /\ rtx.pc \in {"run", "cbResolved"} => OwnBatch
            /\ \A c \in rdb.applied : c.attempt = count.begin)
    /\ [][C39_Step]_vars

C39_Witness ==
    /\ active = "redis"
    /\ outcome.st = "resolved"
    /\ count.begin = 2 /\ count.commit = 2
    /\ rdb.applied = {[attempt |-> 2, n |-> 2]}
    /\ rtx.replies = <<[attempt |-> 2, n |-> 2]>>

====
